---- MODULE Spec2Model ----
(***************************************************************************)
(* Model of backend/locations/services.py of Wikikuvaajat-proto:           *)
(*   - the image-count metric cache and its background refresh scheduler   *)
(*     (enrich_locations_with_image_counts, _submit_refresh, the worker    *)
(*     pool and its done-callbacks);                                       *)
(*   - the binding reconciler of fetch_locations (grouping of SPARQL rows  *)
(*     by entity URI and the multi-valued architect list).                 *)
(* Text is modelled as sequences of one-character strings so that          *)
(* strip(), lower(), replace() and the regular expressions of the code     *)
(* are computed, not assumed.                                              *)
(***************************************************************************)
EXTENDS Integers, Sequences, FiniteSets, TLC

(***************************************************************************)
(* Bounds of the model.                                                    *)
(***************************************************************************)
NumRequests == 2
MaxCalls == 2
MaxTime == 2
MaxJobs == 3
MaxRows == 3
MaxQueryRows == 1
NumWriters == 2
MaxOptional == 1
MaxEntries == 2

(***************************************************************************)
(* Program constants.                                                      *)
(***************************************************************************)
IMAGE_COUNT_REFRESH_MAX_WORKERS == 4

(***************************************************************************)
(* Optional values: None is the empty sequence, Some(x) a one-element one. *)
(***************************************************************************)
None == << >>
Some(x) == << x >>
IsNone(o) == o = << >>
Val(o) == o[1]

(***************************************************************************)
(* Text helpers: Python str methods over sequences of characters.          *)
(***************************************************************************)
UpperChars == << "A", "B", "C", "D", "E", "F", "G", "H", "I", "J", "K", "L", "M",
                 "N", "O", "P", "Q", "R", "S", "T", "U", "V", "W", "X", "Y", "Z" >>
LowerChars == << "a", "b", "c", "d", "e", "f", "g", "h", "i", "j", "k", "l", "m",
                 "n", "o", "p", "q", "r", "s", "t", "u", "v", "w", "x", "y", "z" >>
DigitChars == << "0", "1", "2", "3", "4", "5", "6", "7", "8", "9" >>
Whitespace == { " ", "\t" }

\* The characters of the model in code-point order (str comparison of sorted()).
CodePointOrder == << "\t", " ", "/" >> \o DigitChars \o << ":" >> \o UpperChars
                  \o << "_" >> \o LowerChars

CodePoint(c) == CHOOSE i \in 1..Len(CodePointOrder) : CodePointOrder[i] = c

IsDigit(c) == \E i \in 1..Len(DigitChars) : DigitChars[i] = c

LowerChar(c) ==
    IF \E i \in 1..Len(UpperChars) : UpperChars[i] = c
    THEN LowerChars[CHOOSE i \in 1..Len(UpperChars) : UpperChars[i] = c]
    ELSE c

UpperChar(c) ==
    IF \E i \in 1..Len(LowerChars) : LowerChars[i] = c
    THEN UpperChars[CHOOSE i \in 1..Len(LowerChars) : LowerChars[i] = c]
    ELSE c

Lower(s) == [i \in 1..Len(s) |-> LowerChar(s[i])]
Upper(s) == [i \in 1..Len(s) |-> UpperChar(s[i])]

RECURSIVE LStrip(_)
LStrip(s) == IF s # << >> /\ Head(s) \in Whitespace THEN LStrip(Tail(s)) ELSE s

RECURSIVE RStrip(_)
RStrip(s) ==
    IF s # << >> /\ s[Len(s)] \in Whitespace
    THEN RStrip(SubSeq(s, 1, Len(s) - 1))
    ELSE s

Strip(s) == RStrip(LStrip(s))

StartsWith(s, p) == Len(s) >= Len(p) /\ SubSeq(s, 1, Len(p)) = p

\* s.split(sep, 1)[1] for a one-character sep that occurs in s
AfterFirst(s, sep) ==
    LET i == CHOOSE k \in 1..Len(s) : s[k] = sep /\ \A m \in 1..(k - 1) : s[m] # sep
    IN  SubSeq(s, i + 1, Len(s))

\* s.replace(old, new) for one-character old and new
ReplaceChar(s, old, new) == [i \in 1..Len(s) |-> IF s[i] = old THEN new ELSE s[i]]

\* re.sub(r'\s+', ' ', s)
RECURSIVE CollapseWhitespace(_)
CollapseWhitespace(s) ==
    IF s = << >> THEN << >>
    ELSE IF Head(s) \in Whitespace
         THEN << " " >> \o CollapseWhitespace(LStrip(s))
         ELSE << Head(s) >> \o CollapseWhitespace(Tail(s))

\* Python's < on str
RECURSIVE StrLess(_, _)
StrLess(a, b) ==
    IF b = << >> THEN FALSE
    ELSE IF a = << >> THEN TRUE
    ELSE IF Head(a) = Head(b) THEN StrLess(Tail(a), Tail(b))
    ELSE CodePoint(Head(a)) < CodePoint(Head(b))

\* sorted(set_of_str)
RECURSIVE SortedStrs(_)
SortedStrs(S) ==
    IF S = {} THEN << >>
    ELSE LET m == CHOOSE x \in S : \A y \in S \ {x} : StrLess(x, y)
         IN  << m >> \o SortedStrs(S \ {m})

CATEGORY_PREFIX == << "c", "a", "t", "e", "g", "o", "r", "y", ":" >>

\* _normalize_commons_category
_normalize_commons_category(value) ==
    LET stripped == Strip(value)
        unprefixed == IF StartsWith(Lower(stripped), CATEGORY_PREFIX)
                      THEN Strip(AfterFirst(stripped, ":"))
                      ELSE stripped
    IN  IF stripped = << >> THEN << >>
        ELSE CollapseWhitespace(ReplaceChar(unprefixed, "_", " "))

\* _extract_wikidata_qid: re.search(r'(Q\d+)', value, IGNORECASE), upper-cased
RECURSIVE DigitRun(_)
DigitRun(s) ==
    IF s # << >> /\ IsDigit(Head(s)) THEN << Head(s) >> \o DigitRun(Tail(s)) ELSE << >>

_extract_wikidata_qid(value) ==
    LET starts == { i \in 1..(Len(value) - 1) :
                        LowerChar(value[i]) = "q" /\ IsDigit(value[i + 1]) }
    IN  IF starts = {} THEN << >>
        ELSE LET first == CHOOSE i \in starts : \A k \in starts : i <= k
             IN  Upper(<< value[first] >> \o DigitRun(SubSeq(value, first + 1, Len(value))))

(***************************************************************************)
(* Metric cache and refresh scheduler: data.                               *)
(***************************************************************************)
Kinds == { "commons", "view_it" }

\* A location handed to enrich_locations_with_image_counts.  is_dict is
\* FALSE for a list element that is not a dict.
Loc(cat, item, uri) ==
    [is_dict |-> TRUE, commons_category |-> cat, wikidata_item |-> item, uri |-> uri]
NonDictLoc ==
    [is_dict |-> FALSE, commons_category |-> << >>, wikidata_item |-> << >>, uri |-> << >>]

LocPrefixedA == Loc(<< "C", "a", "t", "e", "g", "o", "r", "y", ":", "A" >>,
                    << "q", "1" >>, << "x" >>)
LocUnderscoreA == Loc(<< "_", "A" >>, << >>, << "e", "/", "Q", "1" >>)
LocPlainA == Loc(<< "A" >>, << >>, << "x" >>)

\* The location lists a request may carry.
LocationLists ==
    { << >>,
      << LocPrefixedA >>,
      << LocUnderscoreA, NonDictLoc >>,
      << LocPlainA >> }
\* The lists used when several requests run at once: both keys, or one.
ConcurrentLists == { << >>, << LocPrefixedA >>, << LocPlainA >> }

AllLocs == UNION { { l[i] : i \in 1..Len(l) } : l \in LocationLists }
RawCategories == { l.commons_category : l \in AllLocs }
RawQids == { l.wikidata_item : l \in AllLocs } \cup { l.uri : l \in AllLocs }

\* Every key a lookup can read and a refresh job can write.
KeyUniverse ==
    [ commons |-> { _normalize_commons_category(_normalize_commons_category(c)) :
                        c \in RawCategories } \ { << >> },
      view_it |-> { _extract_wikidata_qid(_extract_wikidata_qid(q)) :
                        q \in RawQids } \ { << >> } ]

KeyPairs == { kp \in [kind : Kinds, key : KeyUniverse.commons \cup KeyUniverse.view_it] :
                kp.key \in KeyUniverse[kp.kind] }

\* The counts an external fetch may return.
FetchCounts == { 0 }
\* What one run of the kind-specific fetch and upsert may end with.
Outcomes == { "ok", "external_error", "exception" }
\* Values of settings.IMAGE_COUNT_CACHE_TTL_SECONDS.
TTLSettings == { -1, 0, 1 }

Requests == 1..NumRequests
JobIds == 1..MaxJobs

VARIABLES
    cache,        \* cache[kind]: rows of the count table, key -> [image_count, fetched_at]
    pending,      \* pending[kind]: _PENDING_*_IMAGE_COUNT_REFRESHES
    jobs,         \* futures of the executor that were not yet cleaned up
    workQueue,    \* ids of the jobs waiting for a worker, first in first out
    shutdown,     \* the executor refuses new work
    now,          \* timezone.now()
    ttlSetting,   \* settings.IMAGE_COUNT_CACHE_TTL_SECONDS
    req,          \* req[t]: the enrichment call of request thread t
    calls         \* number of enrichment calls started

refreshVars == << cache, pending, jobs, workQueue, shutdown, now, ttlSetting, req,
                  calls >>

VARIABLES
    bindings,     \* fetch_locations: the rows the list query returned
    merged_items, \* fetch_locations: the records it returned
    fetch_pc,     \* the fetch: "idle", "querying", "queried", "returned" or "raised"
    fetch         \* the fetch: its function, language chain and query loop

reconVars == << bindings, merged_items, fetch_pc, fetch >>

\* The write orchestrator and the knowledge graph it writes to.
VARIABLES
    graph,        \* the knowledge graph: items created and the claims of the entities
    sent,         \* the mutation requests posted to the write API, in order
    writer        \* writer[w]: the write call of caller w

writeVars == << graph, sent, writer >>

\* The query builders and the language chain.
VARIABLES
    chain,        \* the last direct call of _language_fallbacks and its result
    built         \* built[b]: the list query of build b, None before it

queryVars == << chain, built >>

vars == << refreshVars, reconVars, writeVars, queryVars >>

(***************************************************************************)
(* Metric cache: freshness and lookup.                                     *)
(***************************************************************************)
\* _image_count_cache_ttl_seconds (the setting is an int in config/settings.py)
_image_count_cache_ttl_seconds == IF ttlSetting > 0 THEN ttlSetting ELSE 0

\* Mutant: a TTL of zero is applied like any other TTL.
_image_count_cache_cutoff_always(now_value) ==
    Some(now_value - _image_count_cache_ttl_seconds)

\* _image_count_cache_cutoff
_image_count_cache_cutoff(now_value) ==
    IF _image_count_cache_ttl_seconds <= 0
    THEN None
    ELSE Some(now_value - _image_count_cache_ttl_seconds)

\* _is_cache_entry_fresh (fetched_at is a non-null column)
_is_cache_entry_fresh(fetched_at, cutoff) ==
    IF IsNone(cutoff) THEN TRUE ELSE fetched_at >= Val(cutoff)

\* The row of a key as an optional value.
Row(rows, key) == IF key \in DOMAIN rows THEN Some(rows[key]) ELSE None

\* Model.objects.update_or_create(key, defaults=entry)
Upsert(rows, key, entry) ==
    [k \in DOMAIN rows \cup {key} |-> IF k = key THEN entry ELSE rows[k]]

\* The per-kind normalizer of a raw key.
NormalizeKey(kind, raw) ==
    IF kind = "commons" THEN _normalize_commons_category(raw)
    ELSE _extract_wikidata_qid(raw)

\* normalized_set of the lookup helpers: the keys they read from the table.
NormalizedSet(kind, keys) == { NormalizeKey(kind, k) : k \in keys } \ { << >> }

\* _commons_counts_for_categories / _view_it_counts_for_qids: the pair
\* (counts, stale) for the keys of one kind, read at now_value.
CountsForKeys(kind, keys, rows, now_value) ==
    LET normalized_set == NormalizedSet(kind, keys)
        cutoff == _image_count_cache_cutoff(now_value)
    IN  [ counts |-> [k \in normalized_set \cap DOMAIN rows |-> rows[k].image_count],
          stale  |-> { k \in normalized_set :
                          \/ k \notin DOMAIN rows
                          \/ ~ _is_cache_entry_fresh(rows[k].fetched_at, cutoff) } ]

\* enrich_locations_with_image_counts, first loop: category_by_position[i]
\* (the empty text stands for "no entry").
CategoryAt(locs, i) ==
    IF locs[i].is_dict THEN _normalize_commons_category(locs[i].commons_category)
    ELSE << >>

\* enrich_locations_with_image_counts, first loop: qid_by_position[i]
QidAt(locs, i) ==
    IF ~ locs[i].is_dict THEN << >>
    ELSE IF _extract_wikidata_qid(locs[i].wikidata_item) # << >>
         THEN _extract_wikidata_qid(locs[i].wikidata_item)
         ELSE _extract_wikidata_qid(locs[i].uri)

KeyAt(kind, locs, i) == IF kind = "commons" THEN CategoryAt(locs, i) ELSE QidAt(locs, i)

\* normalized_categories / normalized_qids of the call
CallKeys(kind, locs) == { KeyAt(kind, locs, i) : i \in 1..Len(locs) } \ { << >> }

\* dict.get(key): None when the key is absent
DictGet(d, key) == IF key \in DOMAIN d THEN Some(d[key]) ELSE None

\* enrich_locations_with_image_counts, second loop: the enriched list.
\* has_* tells whether the count fields of that kind were set on the copy.
Enriched(locs, commons_counts, view_it_counts) ==
    [i \in 1..Len(locs) |->
        [ is_dict |-> locs[i].is_dict,
          has_commons |-> CategoryAt(locs, i) # << >>,
          commons_category |-> IF CategoryAt(locs, i) # << >>
                               THEN CategoryAt(locs, i)
                               ELSE locs[i].commons_category,
          commons_image_count_petscan |->
              IF CategoryAt(locs, i) # << >>
              THEN DictGet(commons_counts, CategoryAt(locs, i)) ELSE None,
          has_view_it |-> QidAt(locs, i) # << >>,
          view_it_qid |-> QidAt(locs, i),
          view_it_image_count |->
              IF QidAt(locs, i) # << >>
              THEN DictGet(view_it_counts, QidAt(locs, i)) ELSE None ] ]

\* _queue_image_count_refresh: the order in which keys reach _submit_refresh
RefreshOrder(stale_categories, stale_qids) ==
    [i \in 1..Cardinality(stale_categories) |->
        [kind |-> "commons", key |-> SortedStrs(stale_categories)[i]]]
    \o
    [i \in 1..Cardinality(stale_qids) |->
        [kind |-> "view_it", key |-> SortedStrs(stale_qids)[i]]]

(***************************************************************************)
(* Refresh scheduler: the pending sets, the executor and its futures.      *)
(***************************************************************************)
\* Mutant: the membership test of _submit_refresh never finds the key.
PendingHasNever(pending_set, refresh_key) == FALSE

\* `refresh_key in pending_set` of _submit_refresh
PendingHas(pending_set, refresh_key) == refresh_key \in pending_set

\* Mutant: _submit_refresh forgets to insert the key.
PendingAddNothing(pending_set, refresh_key) == pending_set

\* pending_set.add
PendingAdd(pending_set, refresh_key) == pending_set \cup { refresh_key }

\* Mutant: the key is never taken out of the pending set.
PendingDiscardNothing(pending_set, refresh_key) == pending_set

\* pending_set.discard
PendingDiscard(pending_set, refresh_key) == pending_set \ { refresh_key }

\* Mutant: the executor's work queue holds one future and a full queue
\* blocks the submitter.
WorkQueueAcceptsOne(queue) == Len(queue) < 1

\* ThreadPoolExecutor.submit puts the work item on an unbounded queue: it
\* never blocks the caller, however many futures are waiting.
WorkQueueAccepts(queue) == TRUE

\* Mutant: a failed fetch stores a zero count.
_refresh_image_count_zero_on_error(rows, key, outcome, count, now_value) ==
    Upsert(rows, key, [image_count |-> IF outcome = "ok" THEN count ELSE 0,
                       fetched_at |-> now_value])

\* _refresh_commons_image_count / _refresh_view_it_image_count: the rows of
\* the kind after one run that ended with `outcome` (count is what a
\* successful fetch returned).
_refresh_image_count(rows, key, outcome, count, now_value) ==
    IF outcome = "ok"
    THEN Upsert(rows, key, [image_count |-> count, fetched_at |-> now_value])
    ELSE rows

\* Future.add_done_callback runs the callback at once, in the caller, when
\* the future is already finished; otherwise it stores it.
RunsCallbackNow(job) == job.state = "done"

JobOf(id) == CHOOSE j \in jobs : j.id = id
FreeIds == JobIds \ { j.id : j \in jobs }
\* Workers that are running a job or still invoking its callbacks.
BusyWorkers == { j \in jobs : j.state = "running" \/ (j.state = "done" /\ j.cb) }

InCall(t) == req[t].pc \notin { "idle", "done" }

IdleReq ==
    [ pc |-> "idle", locs |-> << >>,
      counts |-> [k \in Kinds |-> << >>], stale |-> [k \in Kinds |-> {}],
      todo |-> << >>, job |-> 0, result |-> << >>,
      handled |-> {}, overlap |-> {} ]

\* The count table holds no row, or a row for every key, fetched at `t0`.
CacheRows(t0) ==
    { [k \in Kinds |-> << >>],
      [k \in Kinds |->
          [key \in KeyUniverse[k] |-> [image_count |-> 5, fetched_at |-> t0]]] }

\* The process has started: nothing is pending and no request is running.
Started ==
    /\ pending = [k \in Kinds |-> {}]
    /\ jobs = {}
    /\ workQueue = << >>
    /\ shutdown = FALSE
    /\ now = 0
    /\ req = [t \in Requests |-> IdleReq]
    /\ calls = 0

\* The callers of the write orchestrator.
Writers == 1..NumWriters

\* No write call is under way.
IdleWriter ==
    [ fn |-> "none", pc |-> "idle", entity_qid |-> << >>,
      source |-> [ source_url |-> << >>, published_in |-> << >>,
                   language_of_work |-> << >>, reason |-> << >> ],
      payload |-> [ label |-> << >>, optional |-> {}, sourced |-> FALSE,
                    bad_inception |-> FALSE ],
      claims |-> << >>, todo |-> << >>, claim_id |-> 0, created_qid |-> 0,
      already_listed |-> FALSE, error |-> "none", raised_at |-> "none", after |-> {} ]

\* Nothing was posted and no caller is in a write call.
NoWrite ==
    /\ graph = [ items |-> 0, claims |-> << >> ]
    /\ sent = << >>
    /\ writer = [w \in Writers |-> IdleWriter]

\* The two builds of the list query whose texts are compared.
Builds == { "one", "other" }

\* _language_fallbacks was not called on its own and no query was built.
NoQuery ==
    /\ chain = None
    /\ built = [b \in Builds |-> None]

\* No list query is under way.
NoFetch ==
    /\ bindings = << >>
    /\ merged_items = << >>
    /\ fetch_pc = "idle"
    /\ fetch = [ fn |-> "none", lang |-> << >>, fallbacks |-> << >>, last_error |-> 0,
                had_successful_query |-> FALSE, queried |-> << >>, raised |-> 0,
                error |-> "none" ]

\* The scheduler under concurrent requests, at one instant: the table is
\* empty or holds rows that are already stale.
Init ==
    /\ Started
    /\ NoFetch
    /\ NoWrite
    /\ NoQuery
    /\ ttlSetting = 1
    /\ cache \in CacheRows(-2)

\* The cache over time, for every TTL setting: the table is empty or holds
\* rows fetched at time 0.
CacheInit ==
    /\ Started
    /\ NoFetch
    /\ NoWrite
    /\ NoQuery
    /\ ttlSetting \in TTLSettings
    /\ cache \in CacheRows(0)

\* The call moves on to its next stale key, or to building its result.
NextKey(r) ==
    [r EXCEPT !.todo = Tail(@), !.job = 0,
              !.pc = IF Tail(r.todo) = << >> THEN "build" ELSE "check"]

Handled(r, how) ==
    [r EXCEPT !.handled = @ \cup
        { [kind |-> Head(r.todo).kind, key |-> Head(r.todo).key, how |-> how] }]

\* enrich_locations_with_image_counts is entered (lines 1958-1981).
EnrichStart(t, locs) ==
    /\ ~ InCall(t)
    /\ calls < MaxCalls
    /\ calls' = calls + 1
    /\ LET running == { u \in Requests \ {t} : InCall(u) }
       IN  req' = [u \in Requests |->
                    IF u = t
                    THEN IF locs = << >>
                         THEN [IdleReq EXCEPT !.pc = "done"]
                         ELSE [IdleReq EXCEPT !.pc = "lookup_commons", !.locs = locs,
                                              !.overlap = running]
                    ELSE IF u \in running /\ locs # << >>
                         THEN [req[u] EXCEPT !.overlap = @ \cup {t}]
                         ELSE req[u]]
    \* history: the futures of the thread's earlier call no longer belong to a call
    /\ jobs' = { IF j.by = t THEN [j EXCEPT !.by = 0] ELSE j : j \in jobs }
    /\ UNCHANGED << cache, pending, workQueue, shutdown, now, ttlSetting >>
    /\ UNCHANGED << reconVars, writeVars, queryVars >>

\* What each step of a call waits for: its own place in the code, and for
\* executor.submit the executor's queue.  No guard reads the state of a job.
CanLookup(t, kind) ==
    req[t].pc = (IF kind = "commons" THEN "lookup_commons" ELSE "lookup_view_it")
CanSubmitCheck(t) == req[t].pc = "check"
CanSubmitToPool(t) ==
    /\ req[t].pc = "submit"
    /\ shutdown \/ (FreeIds # {} /\ WorkQueueAccepts(workQueue))
CanSubmitReject(t) == req[t].pc = "reject"
CanAddDoneCallback(t) == req[t].pc = "register"
CanEnrichReturn(t) == req[t].pc = "build"

\* _commons_counts_for_categories / _view_it_counts_for_qids (line 1983 / 1984);
\* after the second lookup _queue_image_count_refresh orders the stale keys.
Lookup(t, kind) ==
    /\ CanLookup(t, kind)
    /\ LET got == CountsForKeys(kind, CallKeys(kind, req[t].locs), cache[kind], now)
           r1 == [req[t] EXCEPT !.counts[kind] = got.counts,
                                !.stale[kind] = got.stale]
           order == RefreshOrder(r1.stale["commons"], r1.stale["view_it"])
       IN  req' = [req EXCEPT ![t] =
                    IF kind = "commons"
                    THEN [r1 EXCEPT !.pc = "lookup_view_it"]
                    ELSE [r1 EXCEPT !.todo = order,
                                    !.pc = IF order = << >> THEN "build" ELSE "check"]]
    /\ UNCHANGED << cache, pending, jobs, workQueue, shutdown, now, ttlSetting, calls >>
    /\ UNCHANGED << reconVars, writeVars, queryVars >>

\* _submit_refresh, the locked check-then-add (lines 1860-1863).
SubmitCheck(t) ==
    /\ CanSubmitCheck(t)
    /\ LET kp == Head(req[t].todo)
       IN  IF PendingHas(pending[kp.kind], kp.key)
           THEN /\ req' = [req EXCEPT ![t] = NextKey(Handled(req[t], "skipped"))]
                /\ UNCHANGED pending
           ELSE /\ pending' = [pending EXCEPT ![kp.kind] = PendingAdd(@, kp.key)]
                /\ req' = [req EXCEPT ![t].pc = "submit"]
    /\ UNCHANGED << cache, jobs, workQueue, shutdown, now, ttlSetting, calls >>
    /\ UNCHANGED << reconVars, writeVars, queryVars >>

\* _submit_refresh, executor.submit (lines 1865-1867): a new future, or
\* RuntimeError when the executor was shut down.
SubmitToPool(t) ==
    /\ CanSubmitToPool(t)
    /\ LET kp == Head(req[t].todo)
       IN  IF shutdown
           THEN /\ req' = [req EXCEPT ![t].pc = "reject"]
                /\ UNCHANGED << jobs, workQueue >>
           ELSE /\ LET id == CHOOSE i \in FreeIds : \A k \in FreeIds : i <= k
                   IN  /\ jobs' = jobs \cup
                            { [ id |-> id, kind |-> kp.kind, key |-> kp.key,
                                state |-> "queued", cb |-> FALSE, by |-> t,
                                outcome |-> "none",
                                before |-> Row(cache[kp.kind], kp.key),
                                after |-> None ] }
                       /\ workQueue' = Append(workQueue, id)
                       /\ req' = [req EXCEPT ![t] =
                                    [Handled(req[t], "submitted") EXCEPT
                                        !.pc = "register", !.job = id]]
    /\ UNCHANGED << cache, pending, shutdown, now, ttlSetting, calls >>
    /\ UNCHANGED << reconVars, writeVars, queryVars >>

\* _submit_refresh, the except branch (lines 1868-1870).
SubmitReject(t) ==
    /\ CanSubmitReject(t)
    /\ LET kp == Head(req[t].todo)
       IN  pending' = [pending EXCEPT ![kp.kind] = PendingDiscard(@, kp.key)]
    /\ req' = [req EXCEPT ![t] = NextKey(Handled(req[t], "rejected"))]
    /\ UNCHANGED << cache, jobs, workQueue, shutdown, now, ttlSetting, calls >>
    /\ UNCHANGED << reconVars, writeVars, queryVars >>

\* _cleanup_pending_refresh for the future `job` (lines 1844-1851); the
\* future is dropped from the model once its callback has run.
Cleanup(job) ==
    /\ pending' = [pending EXCEPT ![job.kind] = PendingDiscard(@, job.key)]
    /\ jobs' = jobs \ { job }

\* History: the call that submitted `job` sees it as cleaned up.
MarkCleaned(r, job) ==
    [r EXCEPT !.handled =
        (@ \ { [kind |-> job.kind, key |-> job.key, how |-> "submitted"] })
        \cup { [kind |-> job.kind, key |-> job.key, how |-> "cleaned"] }]

\* _submit_refresh, future.add_done_callback (lines 1872-1874).
AddDoneCallback(t) ==
    /\ CanAddDoneCallback(t)
    /\ LET job == JobOf(req[t].job)
       IN  IF RunsCallbackNow(job)
           THEN /\ Cleanup(job)
                /\ req' = [req EXCEPT ![t] = NextKey(MarkCleaned(req[t], job))]
           ELSE /\ jobs' = (jobs \ { job }) \cup { [job EXCEPT !.cb = TRUE] }
                /\ req' = [req EXCEPT ![t] = NextKey(req[t])]
                /\ UNCHANGED pending
    /\ UNCHANGED << cache, workQueue, shutdown, now, ttlSetting, calls >>
    /\ UNCHANGED << reconVars, writeVars, queryVars >>

\* enrich_locations_with_image_counts builds its result and returns
\* (lines 1990-2011).
EnrichReturn(t) ==
    /\ CanEnrichReturn(t)
    /\ req' = [req EXCEPT ![t].pc = "done",
                          ![t].result = Enriched(req[t].locs, req[t].counts["commons"],
                                                 req[t].counts["view_it"])]
    /\ UNCHANGED << cache, pending, jobs, workQueue, shutdown, now, ttlSetting, calls >>
    /\ UNCHANGED << reconVars, writeVars, queryVars >>

\* A worker of the pool takes the oldest queued future.
JobStart ==
    /\ workQueue # << >>
    /\ Cardinality(BusyWorkers) < IMAGE_COUNT_REFRESH_MAX_WORKERS
    /\ LET job == JobOf(Head(workQueue))
       IN  jobs' = (jobs \ { job }) \cup { [job EXCEPT !.state = "running"] }
    /\ workQueue' = Tail(workQueue)
    /\ UNCHANGED << cache, pending, shutdown, now, ttlSetting, req, calls >>
    /\ UNCHANGED << reconVars, writeVars, queryVars >>

\* _run_refresh_job (lines 1806-1811) runs the kind's refresh function to
\* its end and the future becomes finished.
JobFinish(job, outcome, count) ==
    /\ job \in jobs
    /\ job.state = "running"
    /\ cache' = [cache EXCEPT ![job.kind] =
                    _refresh_image_count(@, job.key, outcome, count, now)]
    /\ jobs' = (jobs \ { job }) \cup
                 { [job EXCEPT !.state = "done", !.outcome = outcome,
                               !.after = Row(cache'[job.kind], job.key)] }
    /\ UNCHANGED << pending, workQueue, shutdown, now, ttlSetting, req, calls >>
    /\ UNCHANGED << reconVars, writeVars, queryVars >>

\* The worker invokes the callbacks that were stored before the future finished.
JobInvokeCallbacks(job) ==
    /\ job \in jobs
    /\ job.state = "done"
    /\ job.cb
    /\ Cleanup(job)
    /\ req' = IF job.by = 0 THEN req ELSE [req EXCEPT ![job.by] = MarkCleaned(@, job)]
    /\ UNCHANGED << cache, workQueue, shutdown, now, ttlSetting, calls >>
    /\ UNCHANGED << reconVars, writeVars, queryVars >>

\* The executor stops accepting work (interpreter exit).
Shutdown ==
    /\ ~ shutdown
    /\ shutdown' = TRUE
    /\ UNCHANGED << cache, pending, jobs, workQueue, now, ttlSetting, req, calls >>
    /\ UNCHANGED << reconVars, writeVars, queryVars >>

\* Time passes.
Tick ==
    /\ now < MaxTime
    /\ now' = now + 1
    /\ UNCHANGED << cache, pending, jobs, workQueue, shutdown, ttlSetting, req, calls >>
    /\ UNCHANGED << reconVars, writeVars, queryVars >>

RequestStep(t) ==
    \/ \E kind \in Kinds : Lookup(t, kind)
    \/ SubmitCheck(t)
    \/ SubmitToPool(t)
    \/ SubmitReject(t)
    \/ AddDoneCallback(t)
    \/ EnrichReturn(t)

WorkerStep ==
    \/ JobStart
    \/ \E job \in jobs : \E outcome \in Outcomes : \E count \in FetchCounts :
          JobFinish(job, outcome, IF outcome = "ok" THEN count ELSE 0)
    \/ \E job \in jobs : JobInvokeCallbacks(job)

\* Concurrent request threads and the worker pool.
Next ==
    \/ \E t \in Requests : \E locs \in ConcurrentLists : EnrichStart(t, locs)
    \/ \E t \in Requests : RequestStep(t)
    \/ WorkerStep
    \/ Shutdown

Spec == Init /\ [][Next]_vars

\* One request thread calling again and again while the pool works and
\* time passes.
CacheNext ==
    \/ \E locs \in LocationLists : EnrichStart(1, locs)
    \/ RequestStep(1)
    \/ WorkerStep
    \/ Shutdown
    \/ Tick

CacheSpec == CacheInit /\ [][CacheNext]_vars

\* The scheduling the threads guarantee: a request thread and a worker that
\* can take a step eventually take it.
WorkerStepOf(id) ==
    \/ JobStart /\ Head(workQueue) = id
    \/ \E job \in jobs : \E outcome \in Outcomes : \E count \in FetchCounts :
          /\ job.id = id
          /\ JobFinish(job, outcome, IF outcome = "ok" THEN count ELSE 0)
    \/ \E job \in jobs : job.id = id /\ JobInvokeCallbacks(job)

\* The steps of _submit_refresh after the locked check.
SubmitStep(t) == SubmitToPool(t) \/ SubmitReject(t) \/ AddDoneCallback(t)

\* The concurrent request threads, each asking for the one location "A".
FairNext ==
    \/ \E t \in Requests : EnrichStart(t, << LocPlainA >>)
    \/ \E t \in Requests : RequestStep(t)
    \/ WorkerStep
    \/ Shutdown

FairSpec ==
    /\ Init /\ [][FairNext]_vars
    /\ \A t \in Requests : WF_vars(SubmitStep(t))
    /\ \A id \in JobIds : WF_vars(WorkerStepOf(id))

(***************************************************************************)
(* Binding reconciler: fetch_locations folds result rows into records.     *)
(***************************************************************************)
\* A result row is a function from binding names to the text of the
\* binding's 'value'.
\* _binding_value: the value of the first of `keys` the row binds
_binding_value(binding, keys, default) ==
    LET bound == { i \in 1..Len(keys) : keys[i] \in DOMAIN binding }
    IN  IF bound = {} THEN default
        ELSE binding[keys[CHOOSE i \in bound : \A j \in bound : i <= j]]

IsSpaces(s) == \A i \in 1..Len(s) : s[i] \in Whitespace

\* The number pattern [+-]?\d+(?:\.\d+)? of _parse_coord_to_lat_lon
IsNumber(s) ==
    LET body == IF s # << >> /\ Head(s) \in { "+", "-" } THEN Tail(s) ELSE s
        dots == { i \in 1..Len(body) : body[i] = "." }
    IN  /\ body # << >>
        /\ \A i \in (1..Len(body)) \ dots : IsDigit(body[i])
        /\ Cardinality(dots) <= 1
        /\ \A i \in dots : 1 < i /\ i < Len(body)

\* The pattern \s*[,\s]\s* between the two numbers
IsSeparator(s) ==
    /\ s # << >>
    /\ \A i \in 1..Len(s) : s[i] \in Whitespace \cup { "," }
    /\ Cardinality({ i \in 1..Len(s) : s[i] = "," }) <= 1

\* float(text) succeeds (for the number texts of the rows modelled here)
FloatParses(text) == IsNumber(Strip(text))

\* The places where POINT\s*\(\s*num\s*[,\s]\s*num\s*\) matches in the text:
\* <<start of the first number, its end, start of the second, its end>>.
PointMatches(v) ==
    LET opens == { o \in 1..Len(v) :
                     /\ v[o] = "("
                     /\ \E start \in 1..(o - 5) :
                           /\ Upper(SubSeq(v, start, start + 4)) = << "P", "O", "I", "N", "T" >>
                           /\ IsSpaces(SubSeq(v, start + 5, o - 1)) }
        closes(o) == { c \in (o + 1)..Len(v) : v[c] = ")" }
        inside(o, c) ==
            { m \in ((o + 1)..(c - 1)) \X ((o + 1)..(c - 1))
                        \X ((o + 1)..(c - 1)) \X ((o + 1)..(c - 1)) :
                /\ m[1] <= m[2] /\ m[2] < m[3] /\ m[3] <= m[4]
                /\ IsSpaces(SubSeq(v, o + 1, m[1] - 1))
                /\ IsNumber(SubSeq(v, m[1], m[2]))
                /\ IsSeparator(SubSeq(v, m[2] + 1, m[3] - 1))
                /\ IsNumber(SubSeq(v, m[3], m[4]))
                /\ IsSpaces(SubSeq(v, m[4] + 1, c - 1)) }
    IN  UNION { UNION { inside(o, c) : c \in closes(o) } : o \in opens }

\* Mutant: no coordinate text is understood.
ParsesNoPoint(coord_value) == None

\* _parse_coord_to_lat_lon: (latitude, longitude) as number texts, or None
_parse_coord_to_lat_lon(coord_value) ==
    LET groups(m) == Some(<< SubSeq(coord_value, m[3], m[4]),
                             SubSeq(coord_value, m[1], m[2]) >>)
        search(matches) == IF matches = {} THEN None
                           ELSE groups(CHOOSE x \in matches : TRUE)
    IN  search(PointMatches(coord_value))

\* uri.rsplit('/', 1)[-1]
AfterLast(s, sep) ==
    LET at == { i \in 1..Len(s) : s[i] = sep }
    IN  IF at = {} THEN s
        ELSE SubSeq(s, (CHOOSE i \in at : \A j \in at : j <= i) + 1, Len(s))

\* _format_binding: the Location of a row, or None where it raises
\* SPARQLServiceError.  Only the fields the reconciler reads are kept.
_format_binding(binding) ==
    LET location(uri, label, latitude, longitude) ==
            [ uri |-> uri,
              name |-> IF label # << >> THEN label
                       ELSE ReplaceChar(AfterLast(uri, "/"), "_", " "),
              description |->
                  _binding_value(binding, << "itemDescription", "description",
                                             "comment" >>, << >>),
              latitude |-> latitude, longitude |-> longitude,
              architect_p84 |->
                  _binding_value(binding, << "architectP84", "architect" >>, << >>),
              architect_p84_label |->
                  _binding_value(binding, << "architectP84Label", "architectLabel" >>, << >>),
              architect_p84_wikipedia_url |->
                  _binding_value(binding, << "architectP84WikipediaUrl",
                                             "architectWikipediaUrl" >>, << >>),
              architect_p84_values |-> << >> ]
        from_point(uri, label, lat_lon) ==
            IF IsNone(lat_lon) THEN None
            ELSE Some(location(uri, label, Val(lat_lon)[1], Val(lat_lon)[2]))
        format(uri, label, lat_value, lon_value, coord_value) ==
            IF uri = << >> THEN None
            ELSE IF lat_value # << >> /\ lon_value # << >>
                 THEN IF FloatParses(lat_value) /\ FloatParses(lon_value)
                      THEN Some(location(uri, label, Strip(lat_value), Strip(lon_value)))
                      ELSE None
                 ELSE from_point(uri, label, _parse_coord_to_lat_lon(coord_value))
    IN  format(_binding_value(binding, << "item", "uri", "id" >>, << >>),
               _binding_value(binding, << "itemLabel", "label", "name" >>, << >>),
               _binding_value(binding, << "lat", "latitude" >>, << >>),
               _binding_value(binding, << "lon", "long", "longitude" >>, << >>),
               _binding_value(binding, << "coord", "coordinate", "location" >>, << >>))

\* _collect_linked_entities, the merge into an existing entity
MergeEntity(existing, value, label, wikipedia_url) ==
    [existing EXCEPT
        !.value = IF @ = << >> /\ value # << >> THEN value ELSE @,
        !.label = IF @ = << >> /\ label # << >> THEN label ELSE @,
        !.wikipedia_url = IF @ = << >> /\ wikipedia_url # << >> THEN wikipedia_url ELSE @]

\* _collect_linked_entities, the loop over the rows; `entities` are the
\* entities of ordered_keys so far, each with its dedupe_key.
RECURSIVE CollectEntities(_, _, _, _, _)
CollectEntities(rows, value_keys, label_keys, wikipedia_keys, entities) ==
    LET keyed(value, label, wikipedia_url, dedupe_key, existing) ==
            IF value = << >> /\ label = << >> /\ wikipedia_url = << >>
            THEN entities
            ELSE IF existing = {}
            THEN Append(entities,
                        [ dedupe_key |-> dedupe_key, value |-> value,
                          label |-> label, wikipedia_url |-> wikipedia_url ])
            ELSE [entities EXCEPT ![CHOOSE i \in existing : TRUE] =
                     MergeEntity(@, value, label, wikipedia_url)]
        found(value, label, wikipedia_url, dedupe_key) ==
            keyed(value, label, wikipedia_url, dedupe_key,
                  { i \in 1..Len(entities) : entities[i].dedupe_key = dedupe_key })
        next(value, label, wikipedia_url) ==
            found(value, label, wikipedia_url,
                  Lower(IF value # << >> THEN value
                        ELSE IF label # << >> THEN label ELSE wikipedia_url))
    IN  IF rows = << >> THEN entities
        ELSE CollectEntities(Tail(rows), value_keys, label_keys, wikipedia_keys,
                 next(Strip(_binding_value(Head(rows), value_keys, << >>)),
                      Strip(_binding_value(Head(rows), label_keys, << >>)),
                      Strip(_binding_value(Head(rows), wikipedia_keys, << >>))))

\* _collect_linked_entities
_collect_linked_entities(rows, value_keys, label_keys, wikipedia_keys) ==
    LET listed(entities) ==
            [i \in 1..Len(entities) |->
                [ value |-> entities[i].value, label |-> entities[i].label,
                  wikipedia_url |-> entities[i].wikipedia_url ]]
    IN  listed(CollectEntities(rows, value_keys, label_keys, wikipedia_keys, << >>))

\* _apply_architect_values (`x or y` is y when x is empty)
_apply_architect_values(item, rows) ==
    LET primary(first_architect) ==
            [item EXCEPT
                !.architect_p84 =
                    IF first_architect.value # << >> THEN first_architect.value ELSE @,
                !.architect_p84_label =
                    IF first_architect.label # << >> THEN first_architect.label ELSE @,
                !.architect_p84_wikipedia_url =
                    IF first_architect.wikipedia_url # << >>
                    THEN first_architect.wikipedia_url ELSE @]
        apply(architect_values) ==
            IF architect_values = << >> THEN item
            ELSE [primary(architect_values[1]) EXCEPT
                     !.architect_p84_values = architect_values]
    IN  apply(_collect_linked_entities(rows,
                << "architectP84", "architect" >>,
                << "architectP84Label", "architectLabel" >>,
                << "architectP84WikipediaUrl", "architectWikipediaUrl" >>))

\* Mutant: rows are grouped by the URI as the row gives it.
GroupUriRaw(item) == item.uri

\* fetch_locations: the key a formatted row is grouped by (line 1113)
GroupUri(item) == Strip(item.uri)

\* fetch_locations, the loop over the rows: formatted_by_uri and
\* bindings_by_uri as one list in insertion order.
RECURSIVE GroupBindings(_, _)
GroupBindings(rows, groups) ==
    LET grouped(binding, item, uri, known) ==
            IF uri = << >> THEN groups
            ELSE IF known = {}
            THEN Append(groups, [ uri |-> uri, item |-> item, bindings |-> << binding >> ])
            ELSE [groups EXCEPT ![CHOOSE i \in known : TRUE].bindings = Append(@, binding)]
        keyed(binding, item, uri) ==
            grouped(binding, item, uri, { i \in 1..Len(groups) : groups[i].uri = uri })
        next(binding, formatted) ==
            IF IsNone(formatted) THEN groups
            ELSE keyed(binding, Val(formatted), GroupUri(Val(formatted)))
    IN  IF rows = << >> THEN groups
        ELSE GroupBindings(Tail(rows), next(Head(rows), _format_binding(Head(rows))))

\* fetch_locations, from the returned rows to merged_items
MergedItems(rows) ==
    LET merged(groups) ==
            [i \in 1..Len(groups) |->
                _apply_architect_values(groups[i].item, groups[i].bindings)]
    IN  merged(GroupBindings(rows, << >>))

\* Texts of the rows.
UriQ1 == << "e", "/", "Q", "1" >>
UriQ1Padded == << "e", "/", "Q", "1", " " >>
UriQ2 == << "e", "/", "Q", "2" >>
Blank == << " " >>
ArchitectQ7 == << "Q", "7" >>
ArchitectQ7LowerPadded == << "q", "7", " " >>
ArchitectQ8 == << "Q", "8" >>
LabelEngel == << "E", "n" >>
LinkEngel == << "w", "/", "E" >>
PointLiteral == << "P", "o", "i", "n", "t", "(", "2", " ", "6", ")" >>

\* The rows a list query may return.
BindingRows ==
    { [ item |-> UriQ1, lat |-> << "6" >>, lon |-> << "2" >>, architectP84 |-> ArchitectQ7 ],
      [ item |-> UriQ1, lat |-> << "6" >>, lon |-> << "2" >>,
        architectP84 |-> ArchitectQ7LowerPadded, architectP84Label |-> LabelEngel ],
      [ item |-> UriQ1Padded, coord |-> PointLiteral, architectP84 |-> ArchitectQ8,
        architectP84WikipediaUrl |-> LinkEngel ],
      [ item |-> UriQ1, coord |-> PointLiteral, architectP84Label |-> Blank ],
      [ uri |-> UriQ2, coord |-> PointLiteral, architect |-> ArchitectQ8 ],
      [ item |-> UriQ2, itemLabel |-> << "H" >>, itemDescription |-> << "d" >>,
        lat |-> << "6" >>, lon |-> << "2" >> ],
      [ item |-> UriQ2, lat |-> << "6" >> ],
      [ item |-> Blank, lat |-> << "6" >>, lon |-> << "2" >>, architectP84 |-> ArchitectQ7 ],
      [ item |-> << >>, coord |-> PointLiteral ] }

BindingLists == UNION { [1..n -> BindingRows] : n \in 0..MaxRows }

\* A list query has returned its rows.
ReconInit ==
    /\ Started
    /\ ttlSetting = 1
    /\ cache = [k \in Kinds |-> << >>]
    /\ bindings \in BindingLists
    /\ merged_items = << >>
    /\ fetch_pc = "queried"
    /\ fetch = [ fn |-> "fetch_locations", lang |-> << >>, fallbacks |-> << << "e", "n" >> >>,
                last_error |-> 0, had_successful_query |-> TRUE,
                queried |-> << [ lang |-> << "e", "n" >>,
                                 outcome |-> IF bindings = << >> THEN "empty" ELSE "rows",
                                 result |-> "rows" ] >>,
                raised |-> 0, error |-> "none" ]
    /\ NoWrite
    /\ NoQuery

\* fetch_locations, from the query's rows to the return (lines 1105-1130).
FetchLocationsReturn ==
    /\ fetch_pc = "queried"
    /\ merged_items' = IF bindings # << >> THEN MergedItems(bindings) ELSE << >>
    /\ fetch_pc' = "returned"
    /\ UNCHANGED << bindings, fetch >>
    /\ UNCHANGED << refreshVars, writeVars, queryVars >>

ReconNext == FetchLocationsReturn

ReconSpec == ReconInit /\ [][ReconNext]_vars

(***************************************************************************)
(* Language fallback chain and the query loop of the three fetches.        *)
(***************************************************************************)
\* settings.LANGUAGES (the codes) and settings.LANGUAGE_CODE
LANGUAGES == { << "e", "n" >>, << "s", "v" >>, << "f", "i" >> }
LANGUAGE_CODE == << "e", "n" >>

\* _language_fallbacks, the loop that drops repeated candidates
RECURSIVE UniqueCandidates(_, _)
UniqueCandidates(candidates, unique_candidates) ==
    IF candidates = << >> THEN unique_candidates
    ELSE UniqueCandidates(Tail(candidates),
            IF \E i \in 1..Len(unique_candidates) : unique_candidates[i] = Head(candidates)
            THEN unique_candidates
            ELSE Append(unique_candidates, Head(candidates)))

\* Mutant: the chain ignores the requested tag.
DefaultChainOnly(lang, include_mul) ==
    << << "e", "n" >> >> \o (IF include_mul THEN << << "m", "u", "l" >> >> ELSE << >>)

\* _language_fallbacks (lang is the empty text for None)
_language_fallbacks(lang, include_mul) ==
    LET allowed == { Lower(code) : code \in LANGUAGES }
        default_lang == Lower(LANGUAGE_CODE)
        normalized == ReplaceChar(Lower(lang), "_", "-")
        dashes == { i \in 1..Len(normalized) : normalized[i] = "-" }
        base_lang == IF dashes = {} THEN normalized
                     ELSE SubSeq(normalized, 1,
                                 (CHOOSE i \in dashes : \A j \in dashes : i <= j) - 1)
        only(cond, candidate) == IF cond THEN << candidate >> ELSE << >>
        candidates ==
            only(lang # << >> /\ normalized \in allowed, normalized)
            \o only(lang # << >> /\ base_lang \in allowed, base_lang)
            \o only(default_lang \in allowed, default_lang)
            \o only(<< "e", "n" >> \in allowed, << "e", "n" >>)
            \o only(include_mul, << "m", "u", "l" >>)
    IN  UniqueCandidates(candidates, << >>)

\* The language tags a request may carry (the empty text: no tag).
LangTags ==
    { << >>,
      << "f", "i" >>,
      << "s", "v", "-", "S", "E" >>,
      << "s", "v", "_", "F", "I" >>,
      << "d", "e", "-", "D", "E" >>,
      << "E", "N" >> }

\* What one list, detail or children query may return.
QueryResults == UNION { [1..n -> BindingRows] : n \in 0..MaxQueryRows }

\* What the endpoint may answer: no answer, an error status, a body that is
\* neither JSON nor XML, XML that does not parse, XML or JSON results with
\* rows, and JSON of other shapes: {} , [] , null, {"results": []},
\* {"results": null} and {"results": {"bindings": null}}.
Responses ==
    { [ kind |-> kind, rows |-> << >> ] :
        kind \in { "transport_failure", "http_error", "not_json_or_xml", "malformed_xml",
                   "json_object", "json_list", "json_null", "json_results_list",
                   "json_results_null", "json_bindings_null" } }
    \cup { [ kind |-> kind, rows |-> rows ] :
             kind \in { "xml_results", "json_results" }, rows \in QueryResults }

\* _query_sparql: what the call ends with for the answer, "rows" (a list of
\* rows is returned), "None" (None is returned) or the exception raised.
_query_sparql(response) ==
    IF response.kind \in { "transport_failure", "http_error" }
    THEN [ ends |-> "SPARQLServiceError", rows |-> << >> ]
    ELSE IF response.kind = "xml_results" THEN [ ends |-> "rows", rows |-> response.rows ]
    ELSE IF response.kind \in { "malformed_xml", "not_json_or_xml" }
    THEN [ ends |-> "SPARQLServiceError", rows |-> << >> ]
    ELSE IF response.kind \in { "json_list", "json_null", "json_results_list",
                                "json_results_null" }
    THEN [ ends |-> "AttributeError", rows |-> << >> ]
    ELSE IF response.kind = "json_bindings_null" THEN [ ends |-> "None", rows |-> << >> ]
    ELSE [ ends |-> "rows", rows |-> response.rows ]

\* fetch_location_detail: the record of the first URI, or None
DetailItem(rows) ==
    LET groups == GroupBindings(rows, << >>)
    IN  IF groups = << >> THEN None
        ELSE Some(_apply_architect_values(groups[1].item, groups[1].bindings))

\* fetch_location_children, the loop over the rows (the 'id' and 'source'
\* fields of a child are not kept).
RECURSIVE ChildItems(_, _)
ChildItems(rows, children) ==
    IF rows = << >> THEN children
    ELSE LET binding == Head(rows)
             child_uri == _binding_value(binding, << "subitem", "item", "uri" >>, << >>)
             label == _binding_value(binding, << "subitemLabel", "itemLabel", "label" >>, << >>)
             child_label == IF label # << >> THEN label
                            ELSE ReplaceChar(AfterLast(child_uri, "/"), "_", " ")
             child_commons_category ==
                 _normalize_commons_category(
                     _binding_value(binding, << "commonsCategory", "commons_category" >>, << >>))
             next == IF child_uri = << >> THEN children
                     ELSE IF \E i \in 1..Len(children) : children[i].uri = child_uri
                     THEN children
                     ELSE Append(children, [ uri |-> child_uri, name |-> child_label,
                                             commons_category |-> child_commons_category ])
         IN  ChildItems(Tail(rows), next)

\* The empty result of a fetch: `return []`, and `return None` of the detail.
EmptyResult(fn) == IF fn = "fetch_location_detail" THEN None ELSE << >>

\* Mutant: the fetch never raises the last error.
KeepsLastError(last_error, had_successful_query) == FALSE

\* `if last_error is not None and not had_successful_query: raise last_error`;
\* an error is named by the position of its query in the chain, 0 is None.
RaisesLastError(last_error, had_successful_query) ==
    last_error # 0 /\ ~ had_successful_query

\* The fetch was entered: the chain is computed, nothing is queried yet.
FetchStart(fn, lang) ==
    /\ fetch_pc = "idle"
    /\ fetch' = [fetch EXCEPT !.fn = fn, !.lang = lang,
                                    !.fallbacks = _language_fallbacks(lang, FALSE)]
    /\ fetch_pc' = IF _language_fallbacks(lang, FALSE) = << >> THEN "queried" ELSE "querying"
    /\ bindings' = << >>
    /\ UNCHANGED merged_items
    /\ UNCHANGED << refreshVars, writeVars, queryVars >>

\* Mutant: the loop goes through the whole chain, rows or not.
AfterQueryGoesOn(stop) ==
    IF Len(fetch.queried) + 1 = Len(fetch.fallbacks) THEN "queried" ELSE "querying"

\* Where the loop goes after the query of the next chain language.
AfterQuery(stop) ==
    IF stop \/ Len(fetch.queried) + 1 = Len(fetch.fallbacks) THEN "queried" ELSE "querying"

\* _query_sparql raises SPARQLServiceError for the next chain language.
QueryRaises(response) ==
    /\ fetch_pc = "querying"
    /\ _query_sparql(response).ends = "SPARQLServiceError"
    /\ LET fallback_lang == fetch.fallbacks[Len(fetch.queried) + 1]
       IN  fetch' = [fetch EXCEPT
                        !.last_error = Len(fetch.queried) + 1,
                        !.queried = Append(@, [ lang |-> fallback_lang, outcome |-> "error",
                                                result |-> "SPARQLServiceError" ])]
    /\ fetch_pc' = AfterQuery(FALSE)
    /\ UNCHANGED << bindings, merged_items >>
    /\ UNCHANGED << refreshVars, writeVars, queryVars >>

\* _query_sparql raises another exception: no except clause of the fetch
\* catches it, the fetch ends with it.
QueryBreaks(response) ==
    /\ fetch_pc = "querying"
    /\ _query_sparql(response).ends \notin { "SPARQLServiceError", "rows", "None" }
    /\ LET fallback_lang == fetch.fallbacks[Len(fetch.queried) + 1]
       IN  fetch' = [fetch EXCEPT
                        !.error = _query_sparql(response).ends,
                        !.queried = Append(@, [ lang |-> fallback_lang, outcome |-> "broken",
                                                result |-> _query_sparql(response).ends ])]
    /\ fetch_pc' = "raised"
    /\ UNCHANGED << bindings, merged_items >>
    /\ UNCHANGED << refreshVars, writeVars, queryVars >>

\* _query_sparql returns for the next chain language: rows, or None, which
\* the fetch takes for no rows.
QueryReturns(response) ==
    /\ fetch_pc = "querying"
    /\ _query_sparql(response).ends \in { "rows", "None" }
    /\ LET fallback_lang == fetch.fallbacks[Len(fetch.queried) + 1]
           rows == _query_sparql(response).rows
       IN  /\ fetch' = [fetch EXCEPT
                          !.had_successful_query = TRUE,
                          !.queried = Append(@, [ lang |-> fallback_lang,
                                                  outcome |-> IF rows = << >> THEN "empty"
                                                              ELSE "rows",
                                                  result |-> _query_sparql(response).ends ])]
           /\ bindings' = rows
           /\ fetch_pc' = AfterQuery(rows # << >>)
    /\ UNCHANGED merged_items
    /\ UNCHANGED << refreshVars, writeVars, queryVars >>

\* After the loop: the fetch returns its result or raises the last error.
FetchReturn ==
    /\ fetch_pc = "queried"
    /\ IF bindings # << >>
       THEN /\ merged_items' =
                   IF fetch.fn = "fetch_locations" THEN MergedItems(bindings)
                   ELSE IF fetch.fn = "fetch_location_detail" THEN DetailItem(bindings)
                   ELSE ChildItems(bindings, << >>)
            /\ fetch_pc' = "returned"
            /\ UNCHANGED fetch
       ELSE IF RaisesLastError(fetch.last_error, fetch.had_successful_query)
       THEN /\ fetch' = [fetch EXCEPT !.raised = fetch.last_error,
                                      !.error = "SPARQLServiceError"]
            /\ fetch_pc' = "raised"
            /\ UNCHANGED merged_items
       ELSE /\ merged_items' = EmptyResult(fetch.fn)
            /\ fetch_pc' = "returned"
            /\ UNCHANGED fetch
    /\ UNCHANGED bindings
    /\ UNCHANGED << refreshVars, writeVars, queryVars >>

\* A direct call of _language_fallbacks, as search_wikidata_entities makes
\* it with the default include_mul=True.
LanguageFallbacks(lang, include_mul) ==
    /\ chain' = Some([ lang |-> lang, include_mul |-> include_mul,
                       fallbacks |-> _language_fallbacks(lang, include_mul) ])
    /\ UNCHANGED built
    /\ UNCHANGED << refreshVars, reconVars, writeVars >>

FetchInit ==
    /\ Started
    /\ ttlSetting = 1
    /\ cache = [k \in Kinds |-> << >>]
    /\ NoFetch
    /\ NoWrite
    /\ NoQuery

FetchNext ==
    \/ \E fn \in { "fetch_locations", "fetch_location_detail", "fetch_location_children" } :
          \E lang \in LangTags : FetchStart(fn, lang)
    \/ \E response \in Responses :
          \/ QueryRaises(response)
          \/ QueryBreaks(response)
          \/ QueryReturns(response)
    \/ FetchReturn
    \/ \E lang \in LangTags, include_mul \in BOOLEAN : LanguageFallbacks(lang, include_mul)

FetchSpec == FetchInit /\ [][FetchNext]_vars

(***************************************************************************)
(* Query builders: _list_query and build_locations_sparql_query.           *)
(***************************************************************************)
SPARQL_DEFAULT_LIMIT == 500

ENTITY_URL == << "h", "t", "t", "p", "s", ":", "/", "/", "w", "w", "w", ".",
                 "w", "i", "k", "i", "d", "a", "t", "a", ".", "o", "r", "g", "/",
                 "e", "n", "t", "i", "t", "y", "/" >>

\* The collection item written into the text of _list_query.
LIST_COLLECTION == << "Q", "1", "3", "8", "2", "9", "9", "2", "9", "6" >>

\* What a caller may put in additional_wikidata_qids: the text, and the id
\* the caller means by it (the empty text: none).  Q9 in upper and lower
\* case, Q10 as an entity URL, the collection item, and a text without id.
Entries ==
    { [ qid |-> << "Q", "9" >>, text |-> << "Q", "9" >> ],
      [ qid |-> << "Q", "9" >>, text |-> << "q", "9" >> ],
      [ qid |-> << "Q", "1", "0" >>, text |-> ENTITY_URL \o << "q", "1", "0" >> ],
      [ qid |-> LIST_COLLECTION, text |-> LIST_COLLECTION ],
      [ qid |-> << >>, text |-> << "i", "n", "v", "a", "l", "i", "d" >> ] }

EntryLists == UNION { [1..n -> Entries] : n \in 0..MaxEntries }

\* The lang, limit (0: None) and query_comment of a build.
BuildLangs == { << "f", "i" >>, << "s", "v", "-", "S", "E" >> }
BuildLimits == { 0, 20 }
BuildComments == { << >>, << "#", " ", "c" >> }

\* sep.join(parts)
RECURSIVE Join(_, _)
Join(parts, sep) ==
    IF parts = << >> THEN << >>
    ELSE IF Len(parts) = 1 THEN parts[1]
    ELSE parts[1] \o << sep >> \o Join(Tail(parts), sep)

\* The part of a tag before its first "-".
BeforeDash(tag) ==
    LET dashes == { i \in 1..Len(tag) : tag[i] = "-" }
        upto(first) == SubSeq(tag, 1, first - 1)
    IN  IF dashes = {} THEN tag
        ELSE upto(CHOOSE i \in dashes : \A j \in dashes : i <= j)

\* _sparql_label_languages
_sparql_label_languages(preferred_lang) ==
    LET chainOf(normalized) ==
            (IF normalized # << >> THEN << normalized, BeforeDash(normalized) >> ELSE << >>)
            \o << << "e", "n" >>, << "m", "u", "l" >> >>
        nonEmpty(candidate) == candidate # << >>
    IN  Join(UniqueCandidates(
                 SelectSeq(chainOf(ReplaceChar(Lower(Strip(preferred_lang)), "_", "-")),
                           nonEmpty), << >>), ",")

\* _wikipedia_site_url
_wikipedia_site_url(preferred_lang) ==
    LET isLower(c) == \E i \in 1..Len(LowerChars) : LowerChars[i] = c
        site(language_code) ==
            << "https://" >>
            \o (IF /\ Len(language_code) \in 2..12
                   /\ \A i \in 1..Len(language_code) : isLower(language_code[i])
                THEN language_code ELSE << "e", "n" >>)
            \o << ".wikipedia.org/" >>
        codeOf(normalized) == IF normalized # << >> THEN BeforeDash(normalized)
                              ELSE << "e", "n" >>
    IN  site(codeOf(ReplaceChar(Lower(Strip(preferred_lang)), "_", "-")))

\* Mutant: the ids are kept as given, in the order given.
GivenWikidataQids(values) == values

\* _normalized_wikidata_qids
_normalized_wikidata_qids(values) ==
    IF values = << >> THEN << >>
    ELSE SortedStrs({ _extract_wikidata_qid(values[i]) : i \in 1..Len(values) } \ { << >> })

\* _list_query: the query text, its fixed stretches written as one piece
\* each, everything put in by the call character by character.
_list_query(lang, limit, additional_wikidata_qids, query_comment) ==
    LET notQuote(c) == c # "\""
        safe_langs == SelectSeq(_sparql_label_languages(lang), notQuote)
        wd(qid) == << "w", "d", ":" >> \o qid
        values(qids) == Join([i \in 1..Len(qids) |-> wd(qids[i])], " ")
        selector(qids) ==
            IF qids = << >> THEN << "?item wdt:P5008 " >> \o wd(LIST_COLLECTION) \o << " ." >>
            ELSE << "{ ?item wdt:P5008 " >> \o wd(LIST_COLLECTION)
                 \o << " . } UNION { VALUES ?item { " >> \o values(qids) \o << " } }" >>
        optional_comment == IF query_comment # << >> THEN query_comment \o << "\n" >>
                            ELSE << >>
    IN  << "\n" >> \o optional_comment
        \o << "PREFIX wd: <http://www.wikidata.org/entity/> ... WHERE {" >>
        \o selector(_normalized_wikidata_qids(additional_wikidata_qids))
        \o << "... schema:isPartOf <" >> \o _wikipedia_site_url(lang) \o << "> ..." >>
        \o << "SERVICE wikibase:label { bd:serviceParam wikibase:language \"" >>
        \o safe_langs \o << "\". } } LIMIT " >> \o << ToString(limit) >> \o << "\n" >>

\* build_locations_sparql_query (limit 0 is None, lang the empty text is None)
build_locations_sparql_query(lang, limit, additional_wikidata_qids, query_comment) ==
    LET query_limit == IF limit # 0 THEN limit ELSE SPARQL_DEFAULT_LIMIT
        fallbacks == _language_fallbacks(lang, FALSE)
        query(query_lang) ==
            _list_query(query_lang, query_limit,
                        _normalized_wikidata_qids(additional_wikidata_qids), query_comment)
    IN  query(IF fallbacks # << >> THEN fallbacks[1] ELSE << "e", "n" >>)

\* Build b of the list query is made.
BuildLocationsQuery(b, lang, limit, entries, query_comment) ==
    /\ built[b] = None
    /\ built' = [built EXCEPT ![b] = Some(
                    [ lang |-> lang, limit |-> limit, query_comment |-> query_comment,
                      qids |-> { entries[i].qid : i \in 1..Len(entries) } \ { << >> },
                      without_qid |-> { entries[i].text : i \in { k \in 1..Len(entries) :
                                                                  entries[k].qid = << >> } },
                      additional_wikidata_qids |-> [i \in 1..Len(entries) |-> entries[i].text],
                      text |-> build_locations_sparql_query(
                                  lang, limit, [i \in 1..Len(entries) |-> entries[i].text],
                                  query_comment) ])]
    /\ UNCHANGED chain
    /\ UNCHANGED << refreshVars, reconVars, writeVars >>

QueryInit ==
    /\ Started
    /\ ttlSetting = 1
    /\ cache = [k \in Kinds |-> << >>]
    /\ NoFetch
    /\ NoWrite
    /\ NoQuery

QueryNext ==
    \E b \in Builds, lang \in BuildLangs, limit \in BuildLimits,
       entries \in EntryLists, query_comment \in BuildComments :
        BuildLocationsQuery(b, lang, limit, entries, query_comment)

QuerySpec == QueryInit /\ [][QueryNext]_vars

(***************************************************************************)
(* Write orchestrator: ensure_wikidata_collection_membership and           *)
(* create_wikidata_building_item against the write API.                    *)
(***************************************************************************)
\* settings.WIKIDATA_COLLECTION_QID (a short id stands for the default)
WIKIDATA_COLLECTION_QID == << "Q", "9" >>

\* The optional claims of create_wikidata_building_item, in the order of the
\* statements that send them.
OptionalProperties ==
    << "P84", "P1435", "P149", "P5817", "P669", "P571", "P3999", "P6375", "P281",
       "P373", "P670", "P2795" >>

\* The source arguments of a call: source_url, source_published_in_p1433,
\* source_language_of_work_p407 and reason_p958 (the empty text: not given).
Sources ==
    LET src(u, p, l, r) ==
            [ source_url |-> u, published_in |-> p, language_of_work |-> l, reason |-> r ]
    IN  { src(<< >>, << >>, << >>, << >>),
          src(<< "u" >>, << >>, << >>, << >>),
          src(<< "u", " " >>, << >>, << >>, << "r" >>),
          src(<< "u" >>, << "Q", "5" >>, << >>, << >>),
          src(<< "u" >>, << "q", "5" >>, << "Q", "6" >>, << >>),
          src(<< "v" >>, << >>, << >>, << >>) }

\* The claims of the entity before the calls: none, a membership of another
\* collection, and a membership of the collection without a reference, with
\* a reference that gives the URL, and with one that gives all three; and
\* two memberships of the collection without references, as two concurrent
\* calls or other editors of the graph leave them.
InitialGraphs ==
    LET ref(u, p, l) == [ url |-> u, published_in |-> p, language_of_work |-> l ]
        member(target, references) ==
            [ id |-> 1, entity |-> << "Q", "1" >>, property |-> "P5008",
              target |-> target, references |-> references, qualifiers |-> {} ]
        second(claim) == [claim EXCEPT !.id = 2]
        with(claims) == [ items |-> 0, claims |-> claims ]
    IN  { with(<< >>),
          with(<< member(<< "Q", "8" >>, << >>) >>),
          with(<< member(WIKIDATA_COLLECTION_QID, << >>) >>),
          with(<< member(WIKIDATA_COLLECTION_QID, << ref(<< "u" >>, << >>, << >>) >>) >>),
          with(<< member(WIKIDATA_COLLECTION_QID,
                         << ref(<< "u" >>, << "Q", "5" >>, << "Q", "6" >>) >>) >>),
          with(<< member(WIKIDATA_COLLECTION_QID, << >>),
                  second(member(WIKIDATA_COLLECTION_QID, << >>)) >>) }

\* The payloads of create_wikidata_building_item: the label, the optional
\* claims supplied, whether those that take a source have one, and whether
\* the inception date is one that _wikidata_time_datavalue rejects.
Payloads ==
    LET all == { OptionalProperties[i] : i \in 1..Len(OptionalProperties) }
        complete(label, optional, sourced, bad) ==
            [ label |-> label, optional |-> optional, sourced |-> sourced,
              bad_inception |-> bad,
              description |-> << "D" >>, instance_of_p31 |-> << "Q", "5" >>,
              country_p17 |-> << "q", "3" >>, municipality_p131 |-> << "Q", "7" >>,
              latitude |-> << "6", "0" >>, longitude |-> << "2", "4" >>,
              collection_qid |-> << >> ]
        \* collection_qid is the function's own argument of that name, kept
        \* with the payload as one record of the call's inputs
        plain == complete(<< "L" >>, {}, FALSE, FALSE)
    IN  { complete(label, optional, sourced, bad) :
            label \in { << "L" >>, << " " >> },
            optional \in { s \in SUBSET all : Cardinality(s) <= MaxOptional \/ s = all },
            sourced \in BOOLEAN, bad \in BOOLEAN }
        \cup { [plain EXCEPT !.description = << " " >>],
               [plain EXCEPT !.instance_of_p31 = << "x" >>],
               [plain EXCEPT !.country_p17 = << >>],
               [plain EXCEPT !.municipality_p131 = << "x" >>],
               [plain EXCEPT !.latitude = << "x" >>],
               [plain EXCEPT !.latitude = << "9", "1" >>],
               [plain EXCEPT !.longitude = << "-", "1", "8", "1" >>],
               [plain EXCEPT !.collection_qid = << "x" >>] }

\* _wikidata_source_snaks with _extract_wikidata_qid on the two entity ids:
\* the reference a call attaches, None when there is no URL.
_wikidata_source_snaks(source) ==
    IF Strip(source.source_url) = << >> THEN None
    ELSE Some([ url |-> Strip(source.source_url),
                published_in |-> _extract_wikidata_qid(Strip(source.published_in)),
                language_of_work |-> _extract_wikidata_qid(Strip(source.language_of_work)) ])

\* _reference_has_string_snak for P854
_reference_has_string_snak(reference, expected_value) ==
    \/ Strip(expected_value) = << >>
    \/ reference.url # << >> /\ Strip(reference.url) = Strip(expected_value)

\* _reference_has_entity_snak with _entity_id_from_claim_value
_reference_has_entity_snak(entity_id, expected_qid) ==
    \/ _extract_wikidata_qid(expected_qid) = << >>
    \/ entity_id # << >> /\ Upper(entity_id) = _extract_wikidata_qid(expected_qid)

\* Mutant: a reference with the same URL matches whatever its entity ids.
MatchesSourceUrlOnly(claim, source) ==
    /\ Strip(source.source_url) # << >>
    /\ \E i \in 1..Len(claim.references) :
          _reference_has_string_snak(claim.references[i], source.source_url)

\* _claim_has_matching_source_reference
_claim_has_matching_source_reference(claim, source) ==
    /\ Strip(source.source_url) # << >>
    /\ \E i \in 1..Len(claim.references) :
          /\ _reference_has_string_snak(claim.references[i], source.source_url)
          /\ _reference_has_entity_snak(claim.references[i].published_in,
                                        _extract_wikidata_qid(Strip(source.published_in)))
          /\ _reference_has_entity_snak(claim.references[i].language_of_work,
                                        _extract_wikidata_qid(Strip(source.language_of_work)))

\* Mutant: the claims read never show the membership.
NoItemClaims(claims, entity_qid, property_id, target_qid) == << >>

\* _entity_item_claims: the claims of the entity for the property whose
\* value is the target item
_entity_item_claims(claims, entity_qid, property_id, target_qid) ==
    IF _extract_wikidata_qid(target_qid) = << >> THEN << >>
    ELSE LET matches(claim) == /\ claim.entity = entity_qid
                               /\ claim.property = property_id
                               /\ Upper(claim.target) = _extract_wikidata_qid(target_qid)
         IN  SelectSeq(claims, matches)

\* A request of the write API; `claim` 0 names the claim the call created last.
Request(action, property, target, claim, reference) ==
    [ action |-> action, property |-> property, target |-> target, claim |-> claim,
      reference |-> reference ]

\* _create_wikidata_claim: the claim, its reference when there is a source
\* URL, and the qualifier P958 when a reason is given.
_create_wikidata_claim(property_id, target, source) ==
    << Request("wbcreateclaim", property_id, target, 0, None) >>
    \o (IF IsNone(_wikidata_source_snaks(source)) THEN << >>
        ELSE << Request("wbsetreference", property_id, << >>, 0,
                        _wikidata_source_snaks(source)) >>)
    \o (IF Strip(source.reason) = << >> THEN << >>
        ELSE << Request("wbsetqualifier", "P958", << >>, 0, None) >>)

\* ensure_wikidata_collection_membership after the claims were read: the
\* requests it goes on to send.
MembershipRequests(matching_collection_claims, source) ==
    IF matching_collection_claims = << >>
    THEN _create_wikidata_claim("P5008", WIKIDATA_COLLECTION_QID, source)
    ELSE IF Strip(source.source_url) = << >> THEN << >>
    ELSE LET unsourced(claim) == ~ _claim_has_matching_source_reference(claim, source)
             missing == SelectSeq(matching_collection_claims, unsourced)
         IN  [i \in 1..Len(missing) |->
                 Request("wbsetreference", "P5008", << >>, missing[i].id,
                         _wikidata_source_snaks(source))]

\* Mutant: the optional claims are sent before the identity claims.
OptionalClaimsFirst(identity, optional) == optional \o identity

\* create_wikidata_building_item: the identity claims come first.
ClaimOrder(identity, optional) == identity \o optional

\* create_wikidata_building_item after the session was obtained: the
\* requests it goes on to send.  "raise" stands for the inception date that
\* _wikidata_time_datavalue rejects before the claim is sent.
ItemRequests(payload) ==
    LET identity == << "P31", "P17", "P131", "P625", "P5008" >>
        no_source == [ source_url |-> << >>, published_in |-> << >>,
                       language_of_work |-> << >>, reason |-> << >> ]
        source(property_id) ==
            IF payload.sourced /\ property_id \in { "P84", "P1435", "P571", "P3999" }
            THEN [no_source EXCEPT !.source_url = << "u" >>] ELSE no_source
        supplied == SelectSeq(OptionalProperties, LAMBDA p : p \in payload.optional)
        RECURSIVE claims(_)
        claims(properties) ==
            IF properties = << >> THEN << >>
            ELSE IF Head(properties) = "P571" /\ payload.bad_inception
            THEN << Request("raise", "P571", << >>, 0, None) >>
            ELSE _create_wikidata_claim(Head(properties), << >>, source(Head(properties)))
                 \o claims(Tail(properties))
    IN  << Request("wbeditentity", "", << >>, 0, None) >>
        \o claims(ClaimOrder(identity, supplied))

\* The id of the n-th item the write API creates.
ItemQid(n) == << "Q", ToString(n + 1) >>

\* The graph after the write API has carried out the request.
Applied(g, request, entity_qid, claim_id) ==
    IF request.action = "wbeditentity" THEN [g EXCEPT !.items = @ + 1]
    ELSE IF request.action = "wbcreateclaim"
    THEN [g EXCEPT !.claims =
             Append(@, [ id |-> Len(g.claims) + 1, entity |-> entity_qid,
                         property |-> request.property, target |-> request.target,
                         references |-> << >>, qualifiers |-> {} ])]
    ELSE IF request.action = "wbsetreference"
    THEN [g EXCEPT !.claims[claim_id].references = Append(@, Val(request.reference))]
    ELSE [g EXCEPT !.claims[claim_id].qualifiers = @ \cup { request.property }]

\* Mutant: the call notes the error and goes on with its next request.
GoesOnAfterError(call, error) ==
    [call EXCEPT !.error = error, !.raised_at = call.pc,
                 !.todo = IF @ = << >> THEN @ ELSE Tail(@)]

\* The call raises: nothing of what it had still to send is sent.
Raised(call, error) ==
    [call EXCEPT !.pc = "raised", !.error = error, !.raised_at = call.pc, !.todo = << >>]

\* ensure_wikidata_collection_membership is called: the entity id is checked.
EnsureStart(w, entity_id, source) ==
    /\ writer[w].pc = "idle"
    /\ \A v \in Writers : writer[v].fn # "create_wikidata_building_item"
    /\ LET call == [IdleWriter EXCEPT !.fn = "ensure_wikidata_collection_membership",
                                      !.source = source, !.after = { v \in Writers :
                                                     writer[v].pc \in { "returned", "raised" } },
                                      !.entity_qid = _extract_wikidata_qid(entity_id)]
       IN  writer' = [writer EXCEPT ![w] =
                         IF call.entity_qid = << >> THEN Raised(call, "WikidataWriteError")
                         ELSE [call EXCEPT !.pc = "session"]]
    /\ UNCHANGED << graph, sent >>
    /\ UNCHANGED << refreshVars, reconVars, queryVars >>

\* float(text) of a whole-number text
RECURSIVE WholeNumber(_)
WholeNumber(text) ==
    IF text = << >> THEN 0
    ELSE IF Head(text) = "-" THEN 0 - WholeNumber(Tail(text))
    ELSE IF Head(text) = "+" THEN WholeNumber(Tail(text))
    ELSE 10 * WholeNumber(SubSeq(text, 1, Len(text) - 1))
         + ((CHOOSE i \in 1..Len(DigitChars) : DigitChars[i] = text[Len(text)]) - 1)

\* create_wikidata_building_item, the checks of the payload before the
\* session is opened: TRUE where one of them raises WikidataWriteError.
PayloadRejected(payload) ==
    LET out_of_bounds(latitude, longitude) ==
            latitude < -90 \/ latitude > 90 \/ longitude < -180 \/ longitude > 180
    IN  \/ Strip(payload.label) = << >>
        \/ Strip(payload.description) = << >>
        \/ _extract_wikidata_qid(payload.instance_of_p31) = << >>
        \/ _extract_wikidata_qid(payload.country_p17) = << >>
        \/ _extract_wikidata_qid(payload.municipality_p131) = << >>
        \/ ~ FloatParses(payload.latitude)
        \/ ~ FloatParses(payload.longitude)
        \/ out_of_bounds(WholeNumber(Strip(payload.latitude)),
                         WholeNumber(Strip(payload.longitude)))
        \/ _extract_wikidata_qid(IF payload.collection_qid # << >>
                                 THEN payload.collection_qid
                                 ELSE WIKIDATA_COLLECTION_QID) = << >>

\* create_wikidata_building_item is called: the payload is checked.
CreateItemStart(w, payload) ==
    /\ writer[w].pc = "idle"
    /\ \A v \in Writers : writer[v].fn = "none"
    /\ LET call == [IdleWriter EXCEPT !.fn = "create_wikidata_building_item",
                                      !.payload = payload, !.after = { v \in Writers :
                                                     writer[v].pc \in { "returned", "raised" } }]
       IN  writer' = [writer EXCEPT ![w] =
                         IF PayloadRejected(payload)
                         THEN Raised(call, "WikidataWriteError")
                         ELSE [call EXCEPT !.pc = "session"]]
    /\ UNCHANGED << graph, sent >>
    /\ UNCHANGED << refreshVars, reconVars, queryVars >>

\* The exception _wikidata_oauth_session ends with ("none": it returns with
\* a session and a token): it may end at the credentials, the consumer key,
\* the OAuth1 import, the token request, a payload without a token, or a
\* payload whose 'tokens' is not a dict.
SessionError(outcome) ==
    IF outcome = "session" THEN "none"
    ELSE IF outcome = "tokens_not_a_dict" THEN "AttributeError"
    ELSE "WikidataWriteError"

\* _wikidata_oauth_session
OAuthSession(w, outcome) ==
    /\ writer[w].pc = "session"
    /\ writer' = [writer EXCEPT ![w] =
          IF SessionError(outcome) # "none" THEN Raised(@, SessionError(outcome))
          ELSE IF @.fn = "ensure_wikidata_collection_membership" THEN [@ EXCEPT !.pc = "read"]
          ELSE [@ EXCEPT !.pc = "post", !.todo = ItemRequests(writer[w].payload)]]
    /\ UNCHANGED << graph, sent >>
    /\ UNCHANGED << refreshVars, reconVars, queryVars >>

\* ensure_wikidata_collection_membership reads the claims of the entity
\* (wbgetentities) and decides what to send.
ReadClaims(w, failed) ==
    /\ writer[w].pc = "read"
    /\ LET matching_collection_claims ==
               _entity_item_claims(graph.claims, writer[w].entity_qid, "P5008",
                                   WIKIDATA_COLLECTION_QID)
       IN  writer' = [writer EXCEPT ![w] =
               IF failed THEN Raised(@, "WikidataWriteError")
               ELSE [@ EXCEPT !.pc = "post",
                              !.claims = matching_collection_claims,
                              !.already_listed = matching_collection_claims # << >>,
                              !.todo = MembershipRequests(matching_collection_claims,
                                                          writer[w].source)]]
    /\ UNCHANGED << graph, sent >>
    /\ UNCHANGED << refreshVars, reconVars, queryVars >>

\* The next request of the call is posted (_wikidata_api_post).  It is
\* carried out and answered ("done"), refused or lost ("failed": the write
\* API did nothing), or carried out with an answer that lacks the id of
\* what was created ("no_id").
Post(w, outcome) ==
    /\ writer[w].pc = "post"
    /\ writer[w].todo # << >>
    /\ Head(writer[w].todo).action # "raise"
    /\ outcome = "no_id" => Head(writer[w].todo).action \in { "wbeditentity", "wbcreateclaim" }
    /\ LET request == Head(writer[w].todo)
           entity_qid == IF writer[w].fn = "create_wikidata_building_item"
                         THEN ItemQid(writer[w].created_qid) ELSE writer[w].entity_qid
           claim_id == IF request.claim = 0 THEN writer[w].claim_id ELSE request.claim
       IN  /\ sent' = Append(sent, [ by |-> w, action |-> request.action,
                                     property |-> request.property,
                                     claim |-> IF request.action \in { "wbeditentity",
                                                                       "wbcreateclaim" }
                                               THEN 0 ELSE claim_id,
                                     outcome |-> outcome ])
           /\ graph' = IF outcome = "failed" THEN graph
                       ELSE Applied(graph, request, entity_qid, claim_id)
           /\ writer' = [writer EXCEPT ![w] =
                  IF outcome # "done" THEN Raised(@, "WikidataWriteError")
                  ELSE [@ EXCEPT !.todo = Tail(@),
                                 !.claim_id = IF request.action = "wbcreateclaim"
                                              THEN Len(graph.claims) + 1 ELSE @,
                                 !.created_qid = IF request.action = "wbeditentity"
                                                 THEN graph.items + 1 ELSE @]]
    /\ UNCHANGED << refreshVars, reconVars, queryVars >>

\* _wikidata_time_datavalue rejects the inception date: the call raises
\* before the claim is sent.
DatavalueRaises(w) ==
    /\ writer[w].pc = "post"
    /\ writer[w].todo # << >>
    /\ Head(writer[w].todo).action = "raise"
    /\ writer' = [writer EXCEPT ![w] = Raised(@, "WikidataWriteError")]
    /\ UNCHANGED << graph, sent >>
    /\ UNCHANGED << refreshVars, reconVars, queryVars >>

\* The call has sent all it had to send and returns its result.
WriteReturn(w) ==
    /\ writer[w].pc = "post"
    /\ writer[w].todo = << >>
    /\ writer' = [writer EXCEPT ![w].pc = "returned"]
    /\ UNCHANGED << graph, sent >>
    /\ UNCHANGED << refreshVars, reconVars, queryVars >>

\* The requests of the given actions that call w has posted, as places in `sent`.
SentBy(w, actions) ==
    { i \in 1..Len(sent) : sent[i].by = w /\ sent[i].action \in actions }

WriteInit ==
    /\ Started
    /\ ttlSetting = 1
    /\ cache = [k \in Kinds |-> << >>]
    /\ NoFetch
    /\ NoQuery
    /\ graph \in InitialGraphs
    /\ sent = << >>
    /\ writer = [w \in Writers |-> IdleWriter]

WriteNext ==
    \E w \in Writers :
        \/ \E entity_id \in { << "q", "1" >>, << "x" >> } : \E source \in Sources : EnsureStart(w, entity_id, source)
        \/ \E payload \in Payloads : CreateItemStart(w, payload)
        \/ \E outcome \in { "session", "credentials_missing", "not_configured",
                            "oauth1_missing", "request_failed", "token_missing",
                            "tokens_not_a_dict" } : OAuthSession(w, outcome)
        \/ \E failed \in BOOLEAN : ReadClaims(w, failed)
        \/ \E outcome \in { "done", "failed", "no_id" } : Post(w, outcome)
        \/ DatavalueRaises(w)
        \/ WriteReturn(w)

WriteSpec == WriteInit /\ [][WriteNext]_vars

(***************************************************************************)
(* Claims about the refresh scheduler.                                     *)
(***************************************************************************)
JobsFor(kp) == { j \in jobs : j.kind = kp.kind /\ j.key = kp.key }
HandledAs(t, kp, how) ==
    [kind |-> kp.kind, key |-> kp.key, how |-> how] \in req[t].handled
Decided(t, kp) == \E h \in req[t].handled : h.kind = kp.kind /\ h.key = kp.key

\* C1: at any time each key of a metric kind has at most one job that was
\* submitted and not yet cleaned up, that job's key is in the pending set,
\* and a call that found the key pending has submitted no job for it.
C1_AtMostOneOutstandingJob ==
    /\ \A kp \in KeyPairs : Cardinality(JobsFor(kp)) <= 1
    /\ \A j \in jobs : j.key \in pending[j.kind]
    /\ \A t \in Requests : \A kp \in KeyPairs :
          HandledAs(t, kp, "skipped") => ~ \E j \in JobsFor(kp) : j.by = t

\* C1 witness: a call skipped a key whose job, submitted by another call,
\* is still outstanding.
C1_Witness ==
    \E t \in Requests : \E kp \in KeyPairs :
        /\ HandledAs(t, kp, "skipped")
        /\ \E j \in JobsFor(kp) : j.by # t /\ j.by # 0

Concurrent(t1, t2) ==
    /\ t1 # t2
    /\ t2 \in req[t1].overlap
    /\ t1 \in req[t2].overlap

BothObservedStale(t1, t2, kp) ==
    /\ kp.key \in req[t1].stale[kp.kind]
    /\ kp.key \in req[t2].stale[kp.kind]

SubmittedBy(t, kp) == HandledAs(t, kp, "submitted") \/ HandledAs(t, kp, "cleaned")

PendingIsOwned ==
    \A kp \in KeyPairs :
        kp.key \in pending[kp.kind] =>
            \/ JobsFor(kp) # {}
            \/ \E t \in Requests :
                  /\ req[t].pc \in { "submit", "reject" }
                  /\ Head(req[t].todo) = kp

\* C3: once a job for a key has finished (with a count, an external-service
\* error or any other exception) the key eventually leaves the pending set;
\* no key stays pending forever; and a key is pending only while a job or a
\* submission for it is under way, so that the next _submit_refresh for it
\* is not skipped and hands a new job to the pool.
C3_KeyRequestableAgain ==
    /\ \A kp \in KeyPairs :
          (\E j \in JobsFor(kp) : j.state = "done") ~> (kp.key \notin pending[kp.kind])
    /\ \A kp \in KeyPairs :
          (kp.key \in pending[kp.kind]) ~> (kp.key \notin pending[kp.kind])
    /\ [] PendingIsOwned

\* C3 witness: after a failed job for a key was cleaned up, a new job for
\* the same key has been submitted.
C3_Witness ==
    \E t \in Requests : \E kp \in KeyPairs :
        /\ HandledAs(t, kp, "cleaned")
        /\ \E j \in JobsFor(kp) : j.by # t

\* C4: a call that is under way can always take its next step, whatever the
\* state of the jobs it enqueued: no step of it waits for a job to start or
\* to finish.
C4_CallNeverWaitsForJob ==
    \A t \in Requests :
        InCall(t) =>
            \/ \E kind \in Kinds : CanLookup(t, kind)
            \/ CanEnrichReturn(t)
            \/ ENABLED (SubmitCheck(t) \/ SubmitToPool(t) \/ SubmitReject(t)
                           \/ AddDoneCallback(t))

\* C4 witness: a call has returned while a job it enqueued is still queued.
C4_Witness ==
    \E t \in Requests : \E j \in jobs :
        /\ req[t].pc = "done"
        /\ j.by = t
        /\ j.state = "queued"

(***************************************************************************)
(* Claims about the metric cache.                                          *)
(***************************************************************************)
\* The keys the lookup helper of `kind` reads for the call of thread t.
LookedUp(t, kind) == NormalizedSet(kind, CallKeys(kind, req[t].locs))
\* The keys that _queue_image_count_refresh was handed and that were or
\* will be passed to _submit_refresh.
Enqueued(t, kind) ==
    { req[t].todo[i].key : i \in { n \in 1..Len(req[t].todo) : req[t].todo[n].kind = kind } }
    \cup { h.key : h \in { g \in req[t].handled : g.kind = kind } }
Queued(t) == req[t].pc \in { "check", "submit", "reject", "register", "build", "done" }

\* C5: with TTL = T > 0, a lookup at time t classifies a row fetched at t0
\* as fresh exactly when t < t0 + T; at t = t0 + T and later the key is in
\* the set to refresh.
C5_StaleFromExpiryOn ==
    [][ \A t \in Requests : \A kind \in Kinds :
          (Lookup(t, kind) /\ ttlSetting > 0)
          => \A k \in LookedUp(t, kind) \cap DOMAIN cache[kind] :
                (k \in req'[t].stale[kind])
                    <=> (now >= cache[kind][k].fetched_at + ttlSetting) ]_vars

\* C6: with a TTL setting of zero or less a lookup never reports a key that
\* has a row as stale, at any time; with any TTL setting it reports every
\* key without a row as stale; and the keys handed to the refresh queue are
\* the keys reported stale.
C6_NoExpiryWithoutTTL ==
    /\ [][ \A t \in Requests : \A kind \in Kinds :
             Lookup(t, kind)
             => \A k \in LookedUp(t, kind) :
                   /\ (k \in DOMAIN cache[kind] /\ ttlSetting <= 0)
                          => k \notin req'[t].stale[kind]
                   /\ k \notin DOMAIN cache[kind] => k \in req'[t].stale[kind] ]_vars
    /\ [] (\A t \in Requests : \A kind \in Kinds :
             Queued(t) => Enqueued(t, kind) = req[t].stale[kind])

\* C6 witness: with a TTL setting of zero or less and after time has passed,
\* a call found one key with a row and did not enqueue it, and found another
\* key without a row and enqueued it.
C6_Witness ==
    /\ ttlSetting <= 0
    /\ now >= 1
    /\ \E t \in Requests :
          /\ Queued(t)
          /\ \E k \in LookedUp(t, "commons") :
                /\ Row(cache["commons"], k) # None
                /\ cache["commons"][k].fetched_at < now
                /\ k \notin Enqueued(t, "commons")
          /\ \E k \in LookedUp(t, "view_it") :
                /\ Row(cache["view_it"], k) = None
                /\ k \in Enqueued(t, "view_it")

\* C7: for the key under which the call files a location
\* (category_by_position / qid_by_position) the lookup yields the count of
\* the key's row when there is one, also a stale one, and no count when
\* there is none; the keys reported for refresh are exactly those of the
\* call's keys whose row is missing or not fresh; and the returned location
\* carries the count the lookup yielded for its key.
C7_CountsAndRefreshSetFollowCache ==
    /\ [][ \A t \in Requests : \A kind \in Kinds :
             Lookup(t, kind)
             => LET keys == CallKeys(kind, req[t].locs)
                    rows == cache[kind]
                IN  /\ \A k \in keys :
                          DictGet(req'[t].counts[kind], k) =
                              (IF k \in DOMAIN rows THEN Some(rows[k].image_count) ELSE None)
                    /\ req'[t].stale[kind] =
                          { k \in keys :
                              \/ k \notin DOMAIN rows
                              \/ ~ _is_cache_entry_fresh(rows[k].fetched_at,
                                                         _image_count_cache_cutoff(now)) }
          ]_vars
    /\ [] (\A t \in Requests :
             (req[t].pc = "done" /\ req[t].locs # << >>)
             => \A i \in 1..Len(req[t].locs) :
                   /\ req[t].result[i].commons_image_count_petscan =
                          (IF CategoryAt(req[t].locs, i) # << >>
                           THEN DictGet(req[t].counts["commons"], CategoryAt(req[t].locs, i))
                           ELSE None)
                   /\ req[t].result[i].view_it_image_count =
                          (IF QidAt(req[t].locs, i) # << >>
                           THEN DictGet(req[t].counts["view_it"], QidAt(req[t].locs, i))
                           ELSE None))

\* C8: a job whose fetch failed (external-service error or any other
\* exception) left the row of its key as it was when the job was submitted:
\* same count and fetched_at, and no row where there was none.
C8_FailedJobLeavesRow ==
    \A j \in jobs :
        (j.state = "done" /\ j.outcome # "ok")
        => /\ j.after = j.before
           /\ Row(cache[j.kind], j.key) = j.before

\* C8 witness: a job failed for a key that had a row.
C8_Witness ==
    \E j \in jobs :
        /\ j.state = "done"
        /\ j.outcome = "external_error"
        /\ j.before # None

(***************************************************************************)
(* Claims about the binding reconciler.                                    *)
(***************************************************************************)
\* The rows that format, and what the claims read of them.
FormattedRows == { i \in 1..Len(bindings) : ~ IsNone(_format_binding(bindings[i])) }
UriOf(i) == Val(_format_binding(bindings[i])).uri
ArchitectValueOf(i) ==
    Strip(_binding_value(bindings[i], << "architectP84", "architect" >>, << >>))
ArchitectLabelOf(i) ==
    Strip(_binding_value(bindings[i], << "architectP84Label", "architectLabel" >>, << >>))
ArchitectLinkOf(i) ==
    Strip(_binding_value(bindings[i],
                         << "architectP84WikipediaUrl", "architectWikipediaUrl" >>, << >>))
\* The first of the rows `among` (a non-empty set of row numbers).
FirstOf(among) == CHOOSE i \in among : \A j \in among : i <= j

\* C9 as stated: the returned list holds exactly one record for every
\* distinct URI among the rows that format and no other record, in the
\* order in which the URIs first occur among the rows.
C9_OneRecordPerUri ==
    fetch_pc = "returned" =>
        LET uris == { UriOf(i) : i \in FormattedRows }
            first(u) == FirstOf({ i \in FormattedRows : UriOf(i) = u })
        IN  /\ \A u \in uris :
                  Cardinality({ k \in 1..Len(merged_items) : merged_items[k].uri = u }) = 1
            /\ \A k \in 1..Len(merged_items) : merged_items[k].uri \in uris
            /\ \A k1, k2 \in 1..Len(merged_items) :
                  k1 < k2 => first(merged_items[k1].uri) < first(merged_items[k2].uri)

\* C9 as amended: the returned list holds exactly one record for every
\* distinct non-empty whitespace-trimmed URI among the rows that format and
\* no other record, in the order in which the trimmed URIs first occur; a
\* record carries the URI as the first row of its group gives it, and a row
\* whose URI is only whitespace yields no record.
C9_OneRecordPerTrimmedUri ==
    fetch_pc = "returned" =>
        LET uris == { Strip(UriOf(i)) : i \in FormattedRows } \ { << >> }
            first(u) == FirstOf({ i \in FormattedRows : Strip(UriOf(i)) = u })
        IN  /\ \A u \in uris :
                  Cardinality({ k \in 1..Len(merged_items) :
                                  Strip(merged_items[k].uri) = u }) = 1
            /\ \A k \in 1..Len(merged_items) :
                  /\ Strip(merged_items[k].uri) \in uris
                  /\ merged_items[k].uri = UriOf(first(Strip(merged_items[k].uri)))
            /\ \A k1, k2 \in 1..Len(merged_items) :
                  k1 < k2 => first(Strip(merged_items[k1].uri))
                                < first(Strip(merged_items[k2].uri))

\* C9 witness: two records were returned for three rows that format, two of
\* which give the same URI with different surrounding whitespace.
C9_Witness ==
    /\ fetch_pc = "returned"
    /\ Len(merged_items) = 2
    /\ Cardinality(FormattedRows) = 3
    /\ \E i, j \in FormattedRows :
          /\ UriOf(i) # UriOf(j)
          /\ Strip(UriOf(i)) = Strip(UriOf(j))

\* C10: in every returned record, the rows of the record's group that
\* mention the same architect value (compared without regard to case) make
\* exactly one list entry; that entry has a label and a link whenever some
\* row mentioning the value supplies one; the entries stand in the order in
\* which their values are first mentioned; and the record's primary
\* architect value, label and link are those of the first list entry.
C10_ArchitectListAndPrimary ==
    fetch_pc = "returned" =>
        \A k \in 1..Len(merged_items) :
            LET record == merged_items[k]
                entries == record.architect_p84_values
                group == { i \in FormattedRows : Strip(UriOf(i)) = Strip(record.uri) }
                mentions(v) == { i \in group : Lower(ArchitectValueOf(i)) = v }
                mentioned == { Lower(ArchitectValueOf(i)) : i \in group } \ { << >> }
            IN  /\ \A v \in mentioned :
                      Cardinality({ n \in 1..Len(entries) : Lower(entries[n].value) = v }) = 1
                /\ \A n \in 1..Len(entries) :
                      /\ Lower(entries[n].value) \in mentioned
                      /\ \A i \in mentions(Lower(entries[n].value)) :
                            /\ ArchitectLabelOf(i) # << >> => entries[n].label # << >>
                            /\ ArchitectLinkOf(i) # << >> => entries[n].wikipedia_url # << >>
                /\ \A n1, n2 \in 1..Len(entries) :
                      n1 < n2 => FirstOf(mentions(Lower(entries[n1].value)))
                                    < FirstOf(mentions(Lower(entries[n2].value)))
                /\ entries # << >> =>
                      /\ record.architect_p84 = entries[1].value
                      /\ record.architect_p84_label = entries[1].label
                      /\ record.architect_p84_wikipedia_url = entries[1].wikipedia_url

(***************************************************************************)
(* Claims about the query loop and the language chain.                     *)
(***************************************************************************)
\* C11: each of the three fetches ends by raising exactly when the query of
\* every language of its chain failed, and the error raised is the last
\* one; when some query returned without error and none returned rows, the
\* fetch returns the empty result.
C11_RaisesIffEveryQueryFailed ==
    LET failed == { i \in 1..Len(fetch.queried) : fetch.queried[i].outcome = "error" }
        returned == { i \in 1..Len(fetch.queried) :
                        fetch.queried[i].outcome \in { "empty", "rows" } }
        with_rows == { i \in 1..Len(fetch.queried) : fetch.queried[i].outcome = "rows" }
        every_query_failed == /\ Len(fetch.queried) = Len(fetch.fallbacks)
                              /\ failed = 1..Len(fetch.queried)
    IN  fetch_pc \in { "returned", "raised" } =>
            /\ (fetch_pc = "raised") <=> every_query_failed
            /\ fetch_pc = "raised" => /\ fetch.raised = Len(fetch.fallbacks)
                                      /\ fetch.error = "SPARQLServiceError"
            /\ (returned # {} /\ with_rows = {})
                  => (fetch_pc = "returned" /\ merged_items = EmptyResult(fetch.fn))

\* C18: whatever the endpoint answers, _query_sparql ends by returning a list
\* of rows or by raising SPARQLServiceError: every query a fetch has made
\* ended in one of these two ways.
C18_RowsOrSPARQLServiceError ==
    \A i \in 1..Len(fetch.queried) :
        fetch.queried[i].result \in { "rows", "SPARQLServiceError" }

\* C19: the chain _language_fallbacks returns by default has no language
\* twice, ends with mul, holds before it exactly the supported ones among
\* the normalized requested tag, its base language, the site default and en,
\* in that order; sv-SE gives sv, en, mul and de-DE gives en, mul.
C19_LanguageFallbackChain ==
    (chain # None /\ Val(chain).include_mul) =>
        LET lang == Val(chain).lang
            fallbacks == Val(chain).fallbacks
            en == << "e", "n" >>
            mul == << "m", "u", "l" >>
            normalized == ReplaceChar(Lower(lang), "_", "-")
            base(tag) == IF \E i \in 1..Len(tag) : tag[i] = "-"
                         THEN SubSeq(tag, 1, (CHOOSE i \in 1..Len(tag) :
                                  tag[i] = "-" /\ \A j \in 1..(i - 1) : tag[j] # "-") - 1)
                         ELSE tag
            candidates == (IF lang = << >> THEN << >> ELSE << normalized, base(normalized) >>)
                          \o << LANGUAGE_CODE, en >>
            supported == { c \in { candidates[i] : i \in 1..Len(candidates) } :
                             c \in LANGUAGES }
            first(c) == CHOOSE i \in 1..Len(candidates) :
                            candidates[i] = c /\ \A j \in 1..(i - 1) : candidates[j] # c
            at(c) == CHOOSE i \in 1..Len(fallbacks) : fallbacks[i] = c
        IN  /\ \A i, j \in 1..Len(fallbacks) : fallbacks[i] = fallbacks[j] => i = j
            /\ fallbacks # << >> /\ fallbacks[Len(fallbacks)] = mul
            /\ { fallbacks[i] : i \in 1..(Len(fallbacks) - 1) } = supported
            /\ \A c, d \in supported : first(c) < first(d) => at(c) < at(d)
            /\ lang = << "s", "v", "-", "S", "E" >>
                  => fallbacks = << << "s", "v" >>, en, mul >>
            /\ lang = << "d", "e", "-", "D", "E" >> => fallbacks = << en, mul >>

\* C19 witness: the chain of sv-SE was computed, it is sv, en, mul.
C19_Witness ==
    /\ chain # None
    /\ Val(chain).include_mul
    /\ Val(chain).lang = << "s", "v", "-", "S", "E" >>
    /\ Val(chain).fallbacks = << << "s", "v" >>, << "e", "n" >>, << "m", "u", "l" >> >>

\* The places of a text where a token stands that no digit follows.
Occurrences(text, token) ==
    { i \in 1..(Len(text) - Len(token) + 1) :
        /\ SubSeq(text, i, i + Len(token) - 1) = token
        /\ (i + Len(token) <= Len(text) => ~ IsDigit(text[i + Len(token)])) }

\* Two builds were made for the same language, limit, comment and ids.
SameRequest(a, b) ==
    /\ built[a] # None /\ built[b] # None
    /\ Val(built[a]).lang = Val(built[b]).lang
    /\ Val(built[a]).limit = Val(built[b]).limit
    /\ Val(built[a]).query_comment = Val(built[b]).query_comment
    /\ Val(built[a]).qids = Val(built[b]).qids

\* C20: two builds of the list query with the same language, limit, comment
\* and set of extra ids, however the ids were written, have the same text;
\* each id occurs once in the text and no entry without id occurs in it.
C20_SameRequestSameQueryText ==
    \A a, b \in Builds :
        SameRequest(a, b) =>
            /\ Val(built[a]).text = Val(built[b]).text
            /\ \A qid \in Val(built[a]).qids :
                  Cardinality(Occurrences(Val(built[a]).text, << "w", "d", ":" >> \o qid)) = 1
            /\ \A entry \in Val(built[a]).without_qid :
                  Occurrences(Val(built[a]).text, entry) = {}

\* C20, amended: two such builds have the same text; the VALUES list of the
\* text holds each id once and nothing else, and there is no VALUES list
\* when there is no id; no entry without id occurs in the text.
C20_SameRequestSameValuesList ==
    \A a, b \in Builds :
        LET wd == << "w", "d", ":" >>
            opens(text) == { i \in 1..Len(text) : text[i] = " . } UNION { VALUES ?item { " }
            closes(text) == { i \in 1..Len(text) : text[i] = " } }" }
            listed(text) == IF opens(text) = {} THEN << >>
                            ELSE SubSeq(text, (CHOOSE i \in opens(text) : TRUE) + 1,
                                        (CHOOSE i \in closes(text) : TRUE) - 1)
            once(values, qids) ==
                /\ \A qid \in qids : Cardinality(Occurrences(values, wd \o qid)) = 1
                /\ Cardinality({ i \in 1..(Len(values) - 2) : SubSeq(values, i, i + 2) = wd })
                      = Cardinality(qids)
        IN  SameRequest(a, b) =>
                /\ Val(built[a]).text = Val(built[b]).text
                /\ Cardinality(opens(Val(built[a]).text)) <= 1
                /\ Cardinality(closes(Val(built[a]).text)) = Cardinality(opens(Val(built[a]).text))
                /\ once(listed(Val(built[a]).text), Val(built[a]).qids)
                /\ \A entry \in Val(built[a]).without_qid :
                      Occurrences(Val(built[a]).text, entry) = {}

\* C20 witness: two builds were made with the ids Q9 and Q10 written in
\* different ways and orders, one of them with a text without id; their
\* texts are the same.
C20_Witness ==
    /\ SameRequest("one", "other")
    /\ Val(built["one"]).qids = { << "Q", "9" >>, << "Q", "1", "0" >> }
    /\ Val(built["one"]).additional_wikidata_qids
          = << << "Q", "9" >>, ENTITY_URL \o << "q", "1", "0" >> >>
    /\ Val(built["other"]).additional_wikidata_qids
          = << ENTITY_URL \o << "q", "1", "0" >>, << "q", "9" >> >>
    /\ Val(built["one"]).text = Val(built["other"]).text

C13_ListedEntityGetsReferenceOnly ==
    \A w \in Writers :
        (writer[w].fn = "ensure_wikidata_collection_membership" /\ writer[w].claims # << >>)
        => LET source == writer[w].source
               url == Strip(source.source_url)
               published_in == _extract_wikidata_qid(source.published_in)
               language_of_work == _extract_wikidata_qid(source.language_of_work)
               cited(claim) ==
                   \E i \in 1..Len(claim.references) :
                       /\ Strip(claim.references[i].url) = url
                       /\ published_in # << >> => claim.references[i].published_in = published_in
                       /\ language_of_work # << >>
                             => claim.references[i].language_of_work = language_of_work
               attached(claim) ==
                   \E i \in SentBy(w, { "wbsetreference" }) : sent[i].claim = claim.id
           IN  /\ SentBy(w, { "wbcreateclaim" }) = {}
               /\ writer[w].pc \in { "post", "returned" } => writer[w].already_listed
               /\ \A k \in 1..Len(writer[w].claims) :
                     /\ attached(writer[w].claims[k])
                           => (url # << >> /\ ~ cited(writer[w].claims[k]))
                     /\ (writer[w].pc = "returned" /\ url # << >>
                                                   /\ ~ cited(writer[w].claims[k]))
                           => attached(writer[w].claims[k])

\* C13 witness: a call returned that found the claim with a reference of
\* the same URL but without the published-in item it gives, and attached a
\* reference.
C13_Witness ==
    \E w \in Writers :
        /\ writer[w].pc = "returned"
        /\ writer[w].claims # << >>
        /\ writer[w].claims[1].references # << >>
        /\ Strip(writer[w].claims[1].references[1].url) = Strip(writer[w].source.source_url)
        /\ writer[w].claims[1].references[1].published_in = << >>
        /\ _extract_wikidata_qid(writer[w].source.published_in) # << >>
        /\ SentBy(w, { "wbsetreference" }) # {}

\* C14: the membership calls never create two membership claims of the
\* collection for one entity, however they interleave.
C14_MembershipClaimCreatedOnce ==
    Cardinality({ i \in 1..Len(sent) :
                    /\ sent[i].action = "wbcreateclaim"
                    /\ sent[i].property = "P5008"
                    /\ sent[i].outcome # "failed"
                    /\ writer[sent[i].by].fn = "ensure_wikidata_collection_membership" }) <= 1

\* C15: a call that ended in _wikidata_oauth_session raised a write error
\* and has sent no mutation.
C15_NoSessionNoMutation ==
    \A w \in Writers :
        writer[w].raised_at = "session"
        => /\ writer[w].pc = "raised"
           /\ writer[w].error = "WikidataWriteError"
           /\ \A i \in 1..Len(sent) : sent[i].by # w

\* C16: the claims create_wikidata_building_item sends follow the order
\* P31, P17, P131, P625, P5008, P84, P1435, P149, P5817, P669, P571, P3999,
\* P6375, P281, P373, P670, P2795, each at most once; the first request is
\* the entity creation, every other request comes after it was answered
\* with the id, and a call that returned has sent every identity claim and
\* every optional claim supplied.
C16_ItemClaimsInFixedOrder ==
    \A w \in Writers :
        writer[w].fn = "create_wikidata_building_item"
        => LET order == << "P31", "P17", "P131", "P625", "P5008", "P84", "P1435", "P149",
                           "P5817", "P669", "P571", "P3999", "P6375", "P281", "P373",
                           "P670", "P2795" >>
               place(property) == CHOOSE k \in 1..Len(order) : order[k] = property
               created == SentBy(w, { "wbcreateclaim" })
               all == SentBy(w, { "wbeditentity", "wbcreateclaim", "wbsetreference",
                                  "wbsetqualifier" })
           IN  /\ \A i, j \in created :
                     i < j => place(sent[i].property) < place(sent[j].property)
               /\ \A i \in all :
                     IF i = CHOOSE first \in all : \A k \in all : first <= k
                     THEN sent[i].action = "wbeditentity"
                     ELSE /\ sent[i].action # "wbeditentity"
                          /\ \E e \in all : /\ e < i
                                            /\ sent[e].action = "wbeditentity"
                                            /\ sent[e].outcome = "done"
               /\ writer[w].pc = "returned"
                     => { sent[i].property : i \in created }
                           = { "P31", "P17", "P131", "P625", "P5008" }
                             \cup writer[w].payload.optional

\* C16 witness: a call with all twelve optional claims returned.
C16_Witness ==
    \E w \in Writers :
        /\ writer[w].fn = "create_wikidata_building_item"
        /\ writer[w].pc = "returned"
        /\ Cardinality(SentBy(w, { "wbcreateclaim" })) = 17

\* C17: when a request of create_wikidata_building_item was not answered
\* as done, the call has raised a write error and that request is the last
\* it sent; no request removes anything, and the item and the claims that
\* were created are in the graph.
C17_FailureStopsTheCall ==
    \A w \in Writers :
        writer[w].fn = "create_wikidata_building_item"
        => LET all == SentBy(w, { "wbeditentity", "wbcreateclaim", "wbsetreference",
                                  "wbsetqualifier" })
               carried_out(action) ==
                   { i \in SentBy(w, { action }) : sent[i].outcome # "failed" }
           IN  /\ \A i \in all :
                     sent[i].outcome # "done"
                     => /\ writer[w].pc = "raised"
                        /\ writer[w].error = "WikidataWriteError"
                        /\ \A j \in all : j <= i
               /\ \A i \in 1..Len(sent) :
                     sent[i].by = w => i \in all
               /\ graph.items = Cardinality(carried_out("wbeditentity"))
               /\ writer[w].created_qid = 0 => carried_out("wbcreateclaim") = {}
               /\ writer[w].created_qid # 0
                     => Cardinality({ k \in 1..Len(graph.claims) :
                                        graph.claims[k].entity = ItemQid(writer[w].created_qid) })
                           = Cardinality(carried_out("wbcreateclaim"))

\* C17 witness: a call raised at a failed request after the item and some
\* claims were created.
C17_Witness ==
    \E w \in Writers :
        /\ writer[w].fn = "create_wikidata_building_item"
        /\ writer[w].pc = "raised"
        /\ sent # << >>
        /\ sent[Len(sent)].outcome = "failed"
        /\ Cardinality(SentBy(w, { "wbcreateclaim" })) >= 3
        /\ Len(graph.claims) >= 2

(***************************************************************************)
(* Further claims about the refresh scheduler and the metric cache.        *)
(***************************************************************************)
\* C21: when the pool rejects the job, the step in which _submit_refresh
\* returns leaves the key out of the pending set; and a _submit_refresh is
\* skipped as a duplicate only while a job or another submission for the
\* key is under way, never because of a rejected one.
C21_RejectedKeyNotPending ==
    [][ \A t \in Requests :
          /\ (req[t].pc = "reject" /\ req'[t].pc # "reject")
                => Head(req[t].todo).key \notin pending'[Head(req[t].todo).kind]
          /\ (/\ req[t].pc = "check"
              /\ [ kind |-> Head(req[t].todo).kind, key |-> Head(req[t].todo).key,
                   how |-> "skipped" ] \in req'[t].handled)
                => \/ JobsFor(Head(req[t].todo)) # {}
                   \/ \E u \in Requests \ {t} :
                         /\ req[u].pc \in { "submit", "reject" }
                         /\ Head(req[u].todo) = Head(req[t].todo) ]_vars

\* C21 witness: the pool rejected the job for a key, and a later
\* _submit_refresh for the same key went on to the pool as well.
C21_Witness ==
    \E t, u \in Requests : \E kp \in KeyPairs :
        /\ t # u
        /\ HandledAs(t, kp, "rejected")
        /\ HandledAs(u, kp, "rejected")
        /\ kp.key \notin pending[kp.kind]

\* C22: the keys of a call's locations that differ from a media-category
\* text only in surrounding whitespace, in the case of a leading Category:
\* prefix or in underscores against spaces and runs of whitespace are the
\* key of that text, and the call reads its count under that key.
C22_SameCategorySameKey ==
    LET unprefixed(text) == IF StartsWith(Lower(text), CATEGORY_PREFIX)
                            THEN Strip(AfterFirst(text, ":")) ELSE text
        plain(value) == unprefixed(Strip(CollapseWhitespace(ReplaceChar(value, "_", " "))))
    IN  \A t \in Requests : \A i \in 1..Len(req[t].locs) :
            req[t].locs[i].is_dict =>
                /\ \A other \in RawCategories :
                      plain(other) = plain(req[t].locs[i].commons_category)
                      => _normalize_commons_category(other) = CategoryAt(req[t].locs, i)
                /\ req[t].pc \in { "check", "submit", "reject", "register", "build", "done" }
                      => DictGet(req[t].counts["commons"], CategoryAt(req[t].locs, i))
                         = DictGet(req[t].counts["commons"],
                                   plain(req[t].locs[i].commons_category))

\* C28: normalizing the key under which a call files a location gives the
\* same key again, so that this key is one of the keys the lookup helper
\* reads and the key of every row a refresh job of the call stores.
C28_NormalizedKeyIsFixedPoint ==
    \A t \in Requests : \A i \in 1..Len(req[t].locs) :
        CategoryAt(req[t].locs, i) # << >> =>
            /\ _normalize_commons_category(CategoryAt(req[t].locs, i))
                  = CategoryAt(req[t].locs, i)
            /\ CategoryAt(req[t].locs, i)
                  \in NormalizedSet("commons", CallKeys("commons", req[t].locs))
            /\ \A j \in jobs :
                  (j.by = t /\ j.kind = "commons")
                  => j.key \in { CategoryAt(req[t].locs, k) : k \in 1..Len(req[t].locs) }

(***************************************************************************)
(* Further claims about the reconciler and the query loop.                 *)
(***************************************************************************)
\* The rows of the group of a returned record, in input order.
GroupRows(record) ==
    LET inGroup(binding) ==
            /\ ~ IsNone(_format_binding(binding))
            /\ GroupUri(Val(_format_binding(binding))) = GroupUri(record)
    IN  SelectSeq(bindings, inGroup)

\* C23: the description and the label of a returned record are the first
\* non-empty description and label among the rows of its group.
C23_FirstNonEmptyValueWins ==
    LET firstNonEmpty(rows, keys) ==
            LET given == { i \in 1..Len(rows) : _binding_value(rows[i], keys, << >>) # << >> }
            IN  IF given = {} THEN << >>
                ELSE _binding_value(rows[CHOOSE i \in given : \A j \in given : i <= j],
                                    keys, << >>)
    IN  (fetch_pc = "returned" /\ fetch.fn = "fetch_locations") =>
            \A i \in 1..Len(merged_items) :
                /\ merged_items[i].description
                      = firstNonEmpty(GroupRows(merged_items[i]),
                                      << "itemDescription", "description", "comment" >>)
                /\ firstNonEmpty(GroupRows(merged_items[i]),
                                 << "itemLabel", "label", "name" >>) # << >>
                      => merged_items[i].name
                            = firstNonEmpty(GroupRows(merged_items[i]),
                                            << "itemLabel", "label", "name" >>)

\* The row names an entity and has coordinates in no accepted form: its
\* latitude and longitude are not both given as numbers and its coordinate
\* text holds no POINT literal.
Unparseable(binding) ==
    /\ Strip(_binding_value(binding, << "item", "uri", "id" >>, << >>)) # << >>
    /\ ~ (/\ FloatParses(_binding_value(binding, << "lat", "latitude" >>, << >>))
          /\ FloatParses(_binding_value(binding, << "lon", "long", "longitude" >>, << >>)))
    /\ PointMatches(_binding_value(binding, << "coord", "coordinate", "location" >>,
                                   << >>)) = {}

\* C24: fetch_locations returns, for rows of which some have coordinates in
\* no accepted form, what it returns for the other rows alone: the failing
\* rows add nothing and take nothing away, and every entity named by
\* another row is returned.
C24_UnparseableRowDropped ==
    LET others == SelectSeq(bindings, LAMBDA binding : ~ Unparseable(binding))
    IN  (fetch.fn = "fetch_locations" /\ fetch_pc \in { "returned", "raised" }
            /\ fetch.queried[Len(fetch.queried)].outcome = "rows") =>
            /\ fetch_pc = "returned"
            /\ merged_items = (IF others = << >> THEN << >> ELSE MergedItems(others))
            /\ \A i \in 1..Len(others) :
                  Strip(_binding_value(others[i], << "item", "uri", "id" >>, << >>)) # << >>
                  => \E k \in 1..Len(merged_items) :
                        Strip(merged_items[k].uri)
                           = Strip(_binding_value(others[i], << "item", "uri", "id" >>, << >>))

\* C24 witness: a result with a row without longitude for one entity and a
\* row with coordinates for another was returned as one record.
C24_Witness ==
    /\ fetch.fn = "fetch_locations" /\ fetch_pc = "returned"
    /\ Len(bindings) = 2
    /\ Unparseable(bindings[1])
    /\ ~ Unparseable(bindings[2])
    /\ Len(merged_items) = 1
    /\ Strip(merged_items[1].uri) = UriQ1

\* C25: when every row of a non-empty result has coordinates in no accepted
\* form, fetch_locations ends by raising SPARQLServiceError.
C25_AllRowsUnparseableRaises ==
    (/\ fetch.fn = "fetch_locations" /\ fetch_pc \in { "returned", "raised" }
     /\ bindings # << >>
     /\ \A i \in 1..Len(bindings) : Unparseable(bindings[i]))
        => (fetch_pc = "raised" /\ fetch.error = "SPARQLServiceError")

C27_ChainOrderNoQueryAfterRows ==
    /\ Len(fetch.queried) <= Len(fetch.fallbacks)
    /\ \A i \in 1..Len(fetch.queried) : fetch.queried[i].lang = fetch.fallbacks[i]
    /\ \A i, j \in 1..Len(fetch.queried) :
          fetch.queried[i].lang = fetch.queried[j].lang => i = j
    /\ \A i \in 1..(Len(fetch.queried) - 1) : fetch.queried[i].outcome # "rows"
    /\ (/\ fetch.queried # << >>
        /\ fetch.queried[Len(fetch.queried)].outcome = "rows") => fetch_pc # "querying"
    /\ (/\ fetch_pc \in { "returned", "raised" }
        /\ Len(fetch.queried) = 2
        /\ fetch.queried[1].outcome = "error"
        /\ fetch.queried[2].outcome = "rows")
          => /\ fetch_pc = "returned"
             /\ merged_items =
                   (IF fetch.fn = "fetch_locations" THEN MergedItems(bindings)
                    ELSE IF fetch.fn = "fetch_location_detail" THEN DetailItem(bindings)
                    ELSE ChildItems(bindings, << >>))

\* C27 witness: the first query of a fetch_locations failed, the second
\* returned a row, and the fetch returned its record.
C27_Witness ==
    /\ fetch.fn = "fetch_locations"
    /\ fetch_pc = "returned"
    /\ Len(fetch.queried) = 2
    /\ fetch.queried[1].outcome = "error"
    /\ fetch.queried[2].outcome = "rows"
    /\ Len(merged_items) = 1

(***************************************************************************)
(* Further claims about the write orchestrator.                            *)
(***************************************************************************)
\* C29: a create_wikidata_building_item call whose payload is one the
\* function rejects (a check of the payload fails, or the inception date it
\* has to encode is in no supported format) has sent no request.
C29_InvalidPayloadSendsNothing ==
    \A w \in Writers :
        (/\ writer[w].fn = "create_wikidata_building_item"
         /\ \/ PayloadRejected(writer[w].payload)
            \/ (writer[w].payload.bad_inception /\ "P571" \in writer[w].payload.optional))
            => SentBy(w, { "wbeditentity", "wbcreateclaim", "wbsetreference",
                           "wbsetqualifier" }) = {}

\* C30: one ensure_wikidata_collection_membership call sends at most one
\* reference attachment, however many membership claims of the collection
\* the entity has.
C30_OneCallOneReference ==
    \A w \in Writers :
        writer[w].fn = "ensure_wikidata_collection_membership"
        => Cardinality(SentBy(w, { "wbsetreference" })) <= 1

====
